---- MODULE Spec2Model ----
(***************************************************************************)
(* moler: ThreadPoolExecutorRunner (src/moler/runner.py) driving           *)
(* connection observers in background feed loops.                          *)
(*                                                                         *)
(* One caller thread issues submit / wait_for / shutdown; every submitted  *)
(* feed is a work item of a ThreadPoolExecutor; the connection delivers    *)
(* data to subscribed observers.  Steps are taken at the granularity of    *)
(* the accesses to shared state (observer state, subscriber list, the      *)
(* runner's _in_shutdown flag, the executor and its futures).              *)
(***************************************************************************)
EXTENDS Integers, Sequences, FiniteSets, TLC

\* ------------------------------------------------------------------ bounds
MaxSubmits == 2      \* futures ever created by executor.submit
MaxWorkers == 1      \* max_workers of every executor
MaxTimeout == 2      \* largest timeout value, in polling ticks

\* --------------------------------------------------------------- constants
wait_tick == 1       \* runner.py:155, one polling tick of wait_for (0.1 s)

Observers == {"a", "b"}
Runners   == {"r1", "r2"}
Executors == {"own1", "ext"}
Futures   == 1..MaxSubmits
NoFuture  == 0
Timeouts  == 1..MaxTimeout

\* runner.py:178  hasattr(connection_observer, "command_string"):
\* observer "a" is a Command, observer "b" a plain ConnectionObserver.
HasCommandString(o) == o = "a"

VARIABLES
    obsState,      \* observer -> Pending | Success | Failure | Cancelled
    obsTimeout,    \* observer -> its timeout field
    subscribers,   \* callbacks subscribed to the connection (by observer)
    inShutdown,    \* runner -> self._in_shutdown
    iOwn,          \* runner -> self._i_own_executor
    exShutdown,    \* executor -> shutdown() was called on it
    queue,         \* executor -> work items not yet taken by a worker
    futObs,        \* future -> observer its feed serves
    futRunner,     \* future -> runner whose feed it runs
    futState,      \* future -> none | queued | running | returned | raised | cancelled
    futValue,      \* future -> what feed returned or raised
    feedPc,        \* future -> position of its feed
    started,       \* future -> feed_started event is set
    nfut,          \* futures created so far
    pc,            \* position of the caller thread
    cur,           \* [r, o, f] the caller's current call works on
    wf,            \* locals of wait_for
    outcome,       \* how the caller's last call ended
    handles,       \* futures submit has returned
    awaited,       \* handles wait_for has been called with
    timedOut,      \* observers for which wait_for has raised the timeout
    cancelledBy,   \* observer -> who moved it from Pending to Cancelled
    current_ret,   \* Ls.current_ret: [files, total], the accumulating result
    regex_match,   \* RegexHelper.match: what the last search/match call stored
    last_ok,       \* the most recent match object a search call produced
    ls_out,        \* how the last call on the parser or the helper ended
    fed,           \* the lines delivered to the command so far
    parsing,       \* command -> where its thread is in the parse chain of a line
    active_loggers,  \* loggers.active_loggers: the registry, a list of names
    logger_level,    \* logger name -> level of logging.getLogger(name)
    logger_handlers, \* logger name -> the handlers added to that logger
    logger_propagate,\* logger name -> its propagate flag
    debug_level,     \* loggers.debug_level
    raw_logs_active, \* loggers.raw_logs_active
    log_out,         \* the last call on the loggers module and the name it was for
    total_bytesize,  \* RawTraceFormatter.total_bytesize
    formatted,       \* byte sizes of the records the formatter was given so far
    trace_out        \* bytesize and offset fields of the last trace record

vars == <<obsState, obsTimeout, subscribers, inShutdown, iOwn, exShutdown, queue,
          futObs, futRunner, futState, futValue, feedPc, started, nfut,
          pc, cur, wf, outcome, handles, awaited, timedOut, cancelledBy,
          current_ret, regex_match, last_ok, ls_out, fed, parsing,
          active_loggers, logger_level, logger_handlers, logger_propagate,
          debug_level, raw_logs_active, log_out, total_bytesize, formatted, trace_out>>

registryVars == <<active_loggers, logger_level, logger_handlers, logger_propagate>>
traceVars  == <<total_bytesize, formatted, trace_out>>
logVars    == <<registryVars, debug_level, raw_logs_active, log_out, traceVars>>
obsVars    == <<obsState, obsTimeout, cancelledBy>>
lsVars     == <<current_ret, regex_match, last_ok, ls_out, fed, parsing, logVars>>
runnerVars == <<inShutdown, iOwn, exShutdown, lsVars>>
futVars    == <<futObs, futRunner, futState, futValue, feedPc, started, nfut, queue>>
callVars   == <<pc, cur, wf, outcome, handles, awaited, timedOut>>

\* ------------------------------------------------------ ConnectionObserver
Terminal == {"Success", "Failure", "Cancelled"}

\* done(): true iff the state is terminal
ObserverDone(o) == obsState[o] \in Terminal

\* cancel(): Pending -> Cancelled, no effect on a terminal state
ObserverCancel(s) == IF s = "Pending" THEN "Cancelled" ELSE s

\* on_timeout(): stores a timeout failure if still Pending
ObserverOnTimeout(s) == IF s = "Pending" THEN "Failure" ELSE s

\* result(): the result (a cancelled marker after cancel), or the stored error
ObserverResult(s) ==
    CASE s = "Success"   -> [kind |-> "returned", value |-> "result"]
      [] s = "Cancelled" -> [kind |-> "returned", value |-> "cancelled"]
      [] s = "Failure"   -> [kind |-> "raised",   value |-> "stored_error"]
      [] OTHER           -> [kind |-> "raised",   value |-> "ResultNotAvailableYet"]

\* who made the transition, when a cancel() call finds the observer Pending
CancelledBy(o, who) ==
    IF obsState[o] = "Pending" THEN [cancelledBy EXCEPT ![o] = who] ELSE cancelledBy

\* Connection.subscribe / unsubscribe: unsubscribing twice is no error
Subscribe(subs, o)   == subs \cup {o}
Unsubscribe(subs, o) == subs \ {o}

\* ------------------------------------------------------------------ runner
\* __init__ (runner.py:102-116): the executor a runner uses
ExecutorOf(r) == IF iOwn[r] THEN "own1" ELSE "ext"

RunningOn(e) ==
    {f \in Futures : futState[f] = "running" /\ ExecutorOf(futRunner[f]) = e}

\* Future.done(): finished or cancelled
FutureDone(f) == futState[f] \in {"returned", "raised", "cancelled"}

\* executor.shutdown(wait=True) returns when every work item has ended
Joined(r) ==
    iOwn[r] => (queue[ExecutorOf(r)] = <<>> /\ RunningOn(ExecutorOf(r)) = {})

Outcome(call, kind, value, f) == [call |-> call, kind |-> kind, value |-> value, f |-> f]
NoOutcome == Outcome("none", "none", "none", NoFuture)
NoCall    == [r |-> "r1", o |-> "a", f |-> NoFuture]
NoWf      == [elapsed |-> 0, remain |-> 0, first |-> 0, timeout |-> 0, check |-> FALSE,
              tick |-> 0, steps |-> <<>>]

\* ------------------------------------------------------- lines and tokens
\* A line is the sequence of its whitespace-separated tokens, a token the
\* sequence of its characters; the amount of whitespace between two tokens
\* is not kept (every pattern of Ls separates its fields with \s+).
Digits  == {"0", "1", "2", "3", "4", "5", "6", "7", "8", "9"}
Letters == {"a", "b", "c", "d", "e", "f", "g", "h", "i", "j", "k", "l", "m",
            "n", "o", "p", "q", "r", "s", "t", "u", "v", "w", "x", "y", "z",
            "A", "B", "C", "D", "E", "F", "G", "H", "I", "J", "K", "L", "M",
            "N", "O", "P", "Q", "R", "S", "T", "U", "V", "W", "X", "Y", "Z"}
WordChars == Letters \cup Digits \cup {"_"}     \* \w
PermChars == WordChars \cup {"-"}               \* [\w-]

\* the device output of COMMAND_OUTPUT_ver_long / _ver_plain (ls.py:192-235)
Line_total  == <<<<"t", "o", "t", "a", "l">>, <<"8">>>>
Line_bin    == <<<<"d", "r", "w", "x", "r", "-", "x", "r", "-", "x">>, <<"2">>, <<"r", "o", "o", "t">>, <<"r", "o", "o", "t">>, <<"4", "0", "9", "6">>, <<"S", "e", "p">>, <<"2", "5">>, <<"2", "0", "1", "4">>, <<"b", "i", "n">>>>
Line_bcn    == <<<<"l", "r", "w", "x", "r", "w", "x", "r", "w", "x">>, <<"1">>, <<"r", "o", "o", "t">>, <<"r", "o", "o", "t">>, <<"4">>, <<"M", "a", "r">>, <<"2", "0">>, <<"2", "0", "1", "5">>, <<"b", "c", "n">>, <<"-", ">">>, <<"/", "b", "c", "n">>>>
Line_plain  == <<<<".", "k", "d", "e", "4">>, <<"D", "o", "w", "n", "l", "o", "a", "d", "s">>>>
Line_prompt == <<<<"h", "o", "s", "t", ":", "~">>, <<"#">>>>

\* RegexHelper.__init__ (cmd/__init__.py:15-16): self.match = None
NoMatch == [re |-> "None", groups |-> <<>>]

\* an empty dict
EmptyDict == [k \in {} |-> k]

\* d[k] = v
DictSet(d, k, v) == [x \in (DOMAIN d) \cup {k} |-> IF x = k THEN v ELSE d[x]]

\* Ls.__init__ (ls.py:39): self.current_ret["files"] = dict()
EmptyRet == [files |-> EmptyDict]

LsOut(call, kind, value) == [call |-> call, kind |-> kind, value |-> value]
NoLsOut == LsOut("none", "none", "none")

\* a command whose thread is not inside on_new_line
NotParsing == [pc |-> "idle", k |-> 0, line |-> <<>>, found |-> NoMatch, got |-> NoMatch]

\* a command and its regex helper after construction
InitLs ==
    /\ current_ret = EmptyRet
    /\ regex_match = NoMatch
    /\ last_ok = NoMatch
    /\ ls_out = NoLsOut
    /\ fed = <<>>
    /\ parsing = [o \in Observers |-> NotParsing]

\* ------------------------------------------------- loggers after import
\* logging levels: two of the library's own (loggers.py:19-20) and two of the
\* logging module the library passes on (logging.DEBUG, logging.INFO); a logger
\* nobody configured has level NOTSET
NOTSET == 0
\* debug_level = None: debugging is inactive
NoDebugLevel == -1
RAW_DATA == 1
TRACE == 4
DEBUG == 10
INFO == 20

\* logger names are dotted paths, kept as their sequence of components
MolerName == <<"moler">>
\* what the callers pass as runner_name and as connection_name
RunnerNames == {<<"x">>}
ConnectionNames == {<<"x">>, <<"runner", "x">>}
\* 'moler.runner.{}'.format(runner_name) and 'moler.{}'.format(connection_name)
RunnerLoggerName(runner_name) == <<"moler", "runner">> \o runner_name
DeviceLoggerName(connection_name) == <<"moler">> \o connection_name
LoggerNames ==
    {MolerName} \cup {RunnerLoggerName(n) : n \in RunnerNames}
                \cup {DeviceLoggerName(n) : n \in ConnectionNames}
\* log_file of a call that asks for no file
NoFile == <<>>
LogFiles == {NoFile, <<"own", "log">>}


\* ------------------------------------------------------ raw trace records
\* how many records the formatter is given, and how long a message may be
MaxRecords == 3
MaxMsgLen == 2
\* code points of the characters a message is made of: one that UTF-8 encodes
\* in one byte and one it encodes in two; as byte values, both fit a byte
Chars == {97, 233}
Messages == UNION {[1..n -> Chars] : n \in 0..MaxMsgLen}
\* a log record is its msg, whether msg is bytes, and the encoder it carries
LogRecords ==
    [msg : Messages, is_bytes : BOOLEAN, encoder : {"none", "utf-8"}]
NoTraceOut == [kind |-> "none", bytesize |-> 0, offset |-> 0]

\* a formatter after __init__
InitTrace ==
    /\ total_bytesize = 0
    /\ formatted = <<>>
    /\ trace_out = NoTraceOut

\* the module after import: nothing registered, configure_debug_level() has
\* run on the environment's MOLER_DEBUG_LEVEL
InitRegistry ==
    /\ active_loggers = <<>>
    /\ logger_level = [n \in LoggerNames |-> NOTSET]
    /\ logger_handlers = [n \in LoggerNames |-> <<>>]
    /\ logger_propagate = [n \in LoggerNames |-> TRUE]
    /\ log_out = [call |-> "none", name |-> <<>>]

\* a process started without MOLER_DEBUG_LEVEL and without raw logs
InitLoggers ==
    /\ InitRegistry
    /\ debug_level = INFO
    /\ raw_logs_active = FALSE
    /\ InitTrace


\* everything but the observers' timeout budgets
InitRest ==
    /\ obsState = [o \in Observers |-> "Pending"]
    /\ subscribers = {}
    /\ inShutdown = [r \in Runners |-> FALSE]
    /\ \E own \in BOOLEAN : iOwn = [r \in Runners |-> (r = "r1" /\ own)]
    /\ exShutdown = [e \in Executors |-> FALSE]
    /\ queue = [e \in Executors |-> <<>>]
    /\ futObs = [f \in Futures |-> "a"]
    /\ futRunner = [f \in Futures |-> "r1"]
    /\ futState = [f \in Futures |-> "none"]
    /\ futValue = [f \in Futures |-> "none"]
    /\ feedPc = [f \in Futures |-> "none"]
    /\ started = [f \in Futures |-> FALSE]
    /\ nfut = 0
    /\ pc = "idle"
    /\ cur = NoCall
    /\ wf = NoWf
    /\ outcome = NoOutcome
    /\ handles = {}
    /\ awaited = {}
    /\ timedOut = {}
    /\ cancelledBy = [o \in Observers |-> "none"]
    /\ InitLs

\* ---------------------------------------------------------------- shutdown
\* a shutdown that stops the executor whoever owns it
ShutdownFlagsAlways(r) ==
    /\ inShutdown' = [inShutdown EXCEPT ![r] = TRUE]
    /\ exShutdown' = [exShutdown EXCEPT ![ExecutorOf(r)] = TRUE]
    /\ UNCHANGED <<iOwn, lsVars>>

\* a shutdown that flips the flag instead of setting it
ShutdownFlagsToggle(r) ==
    /\ inShutdown' = [inShutdown EXCEPT ![r] = ~@]
    /\ exShutdown' = IF iOwn[r]
                     THEN [exShutdown EXCEPT ![ExecutorOf(r)] = TRUE]
                     ELSE exShutdown
    /\ UNCHANGED <<iOwn, lsVars>>

\* shutdown (runner.py:118-122): set the flag, stop the executor if owned
ShutdownFlags(r) ==
    /\ inShutdown' = [inShutdown EXCEPT ![r] = TRUE]
    /\ exShutdown' = IF iOwn[r]
                     THEN [exShutdown EXCEPT ![ExecutorOf(r)] = TRUE]
                     ELSE exShutdown
    /\ UNCHANGED <<iOwn, lsVars>>

\* the caller (or the atexit hook, runner.py:109) calls shutdown()
shutdown(r) ==
    /\ pc = "idle"
    /\ ShutdownFlags(r)
    /\ pc' = "sd_join"
    /\ cur' = [r |-> r, o |-> "a", f |-> NoFuture]
    /\ outcome' = NoOutcome
    /\ UNCHANGED <<obsVars, subscribers, futVars, wf, handles, awaited, timedOut>>

\* __exit__ (runner.py:96-98): the context manager calls shutdown()
context_exit(r) ==
    /\ pc = "idle"
    /\ ShutdownFlags(r)
    /\ pc' = "sd_join"
    /\ cur' = [r |-> r, o |-> "a", f |-> NoFuture]
    /\ outcome' = NoOutcome
    /\ UNCHANGED <<obsVars, subscribers, futVars, wf, handles, awaited, timedOut>>

\* executor.shutdown() has joined its workers; shutdown() returns
shutdown_return ==
    /\ pc = "sd_join"
    /\ Joined(cur.r)
    /\ pc' = "idle"
    /\ outcome' = Outcome("shutdown", "returned", "none", NoFuture)
    /\ cur' = NoCall
    /\ UNCHANGED <<obsVars, subscribers, runnerVars, futVars, wf, handles, awaited, timedOut>>

\* ------------------------------------------------------------------ submit
\* observers the caller holds a handle for
Handed == {futObs[f] : f \in handles}

\* submit (runner.py:133-134): executor.submit(self.feed, ...)
submit_call(r, o) ==
    /\ pc = "idle"
    /\ o \notin Handed
    /\ nfut < MaxSubmits
    /\ IF exShutdown[ExecutorOf(r)]
       THEN \* cannot schedule new futures after shutdown
            /\ pc' = "idle"
            /\ cur' = NoCall
            /\ outcome' = Outcome("submit", "raised", "RuntimeError", NoFuture)
            /\ UNCHANGED futVars
       ELSE /\ cur' = [r |-> r, o |-> o, f |-> nfut + 1]
            /\ nfut' = nfut + 1
            /\ futObs' = [futObs EXCEPT ![nfut + 1] = o]
            /\ futRunner' = [futRunner EXCEPT ![nfut + 1] = r]
            /\ futState' = [futState EXCEPT ![nfut + 1] = "queued"]
            /\ feedPc' = [feedPc EXCEPT ![nfut + 1] = "queued"]
            /\ queue' = [queue EXCEPT ![ExecutorOf(r)] = Append(@, nfut + 1)]
            /\ pc' = "submit_wait"
            /\ outcome' = NoOutcome
            /\ UNCHANGED <<futValue, started>>
    /\ UNCHANGED <<obsVars, subscribers, runnerVars, wf, handles, awaited, timedOut>>

\* submit (runner.py:137,140): feed_started.wait() saw the event set
submit_return ==
    /\ pc = "submit_wait"
    /\ started[cur.f]
    /\ pc' = "idle"
    /\ handles' = handles \cup {cur.f}
    /\ outcome' = Outcome("submit", "handle", "none", cur.f)
    /\ cur' = NoCall
    /\ UNCHANGED <<obsVars, subscribers, runnerVars, futVars, wf, awaited, timedOut>>

\* submit (runner.py:137-139): the grace period ended with the event not set
submit_raise ==
    /\ pc = "submit_wait"
    /\ ~started[cur.f]
    /\ pc' = "idle"
    /\ outcome' = Outcome("submit", "raised", "MolerException", cur.f)
    /\ cur' = NoCall
    /\ UNCHANGED <<obsVars, subscribers, runnerVars, futVars, wf, handles, awaited, timedOut>>

\* -------------------------------------------------------------------- feed
\* a feed that goes on to signal 'started' without having subscribed
feed_start_unsubscribed(f) ==
    /\ futState[f] = "queued"
    /\ LET e == ExecutorOf(futRunner[f]) IN
        /\ queue[e] # <<>>
        /\ Head(queue[e]) = f
        /\ Cardinality(RunningOn(e)) < MaxWorkers
        /\ queue' = [queue EXCEPT ![e] = Tail(@)]
    /\ futState' = [futState EXCEPT ![f] = "running"]
    /\ feedPc' = [feedPc EXCEPT ![f] = "signal"]
    /\ UNCHANGED <<obsVars, subscribers, runnerVars, futObs, futRunner, futValue,
                   started, nfut, callVars>>

\* a free worker of the executor takes the oldest work item and runs feed up
\* to moler_conn.subscribe(observer.data_received) (runner.py:205-210)
feed_start(f) ==
    /\ futState[f] = "queued"
    /\ LET e == ExecutorOf(futRunner[f]) IN
        /\ queue[e] # <<>>
        /\ Head(queue[e]) = f
        /\ Cardinality(RunningOn(e)) < MaxWorkers
        /\ queue' = [queue EXCEPT ![e] = Tail(@)]
    /\ futState' = [futState EXCEPT ![f] = "running"]
    /\ subscribers' = Subscribe(subscribers, futObs[f])
    /\ feedPc' = [feedPc EXCEPT ![f] = "signal"]
    /\ UNCHANGED <<obsVars, runnerVars, futObs, futRunner, futValue,
                   started, nfut, callVars>>

\* feed (runner.py:212): feed_started.set()
feed_started_set(f) ==
    /\ feedPc[f] = "signal"
    /\ started' = [started EXCEPT ![f] = TRUE]
    /\ feedPc' = [feedPc EXCEPT ![f] = "poll"]
    /\ UNCHANGED <<obsVars, subscribers, runnerVars, futObs, futRunner, futState,
                   futValue, nfut, queue, callVars>>

\* a feed loop that takes only a result or an error as the end of the observer
feed_check_done_ignoring_cancel(f) ==
    /\ feedPc[f] = "poll"
    /\ feedPc' = [feedPc EXCEPT ![f] =
                    IF obsState[futObs[f]] \in {"Success", "Failure"}
                    THEN "exit" ELSE "check_shutdown"]
    /\ UNCHANGED <<obsVars, subscribers, runnerVars, futObs, futRunner, futState,
                   futValue, started, nfut, queue, callVars>>

\* feed (runner.py:214): if connection_observer.done()
feed_check_done(f) ==
    /\ feedPc[f] = "poll"
    /\ feedPc' = [feedPc EXCEPT ![f] =
                    IF ObserverDone(futObs[f]) THEN "exit" ELSE "check_shutdown"]
    /\ UNCHANGED <<obsVars, subscribers, runnerVars, futObs, futRunner, futState,
                   futValue, started, nfut, queue, callVars>>

\* a feed loop that does not look at the shutdown flag
feed_check_shutdown_ignored(f) ==
    /\ feedPc[f] = "check_shutdown"
    /\ feedPc' = [feedPc EXCEPT ![f] = "poll"]
    /\ UNCHANGED <<obsVars, subscribers, runnerVars, futObs, futRunner, futState,
                   futValue, started, nfut, queue, callVars>>

\* feed (runner.py:218-221): if self._in_shutdown: observer.cancel(); sleep
feed_check_shutdown(f) ==
    /\ feedPc[f] = "check_shutdown"
    /\ obsState' = IF inShutdown[futRunner[f]]
                   THEN [obsState EXCEPT ![futObs[f]] = ObserverCancel(@)]
                   ELSE obsState
    /\ cancelledBy' = IF inShutdown[futRunner[f]]
                      THEN CancelledBy(futObs[f], "feed")
                      ELSE cancelledBy
    /\ feedPc' = [feedPc EXCEPT ![f] = "poll"]
    /\ UNCHANGED <<obsTimeout, subscribers, runnerVars, futObs, futRunner, futState,
                   futValue, started, nfut, queue, callVars>>

\* a feed that raises out of its loop when it finds the observer cancelled
feed_exit_raising(f) ==
    /\ feedPc[f] = "exit"
    /\ subscribers' = Unsubscribe(subscribers, futObs[f])
    /\ LET res == IF obsState[futObs[f]] = "Cancelled"
                  THEN [kind |-> "raised", value |-> "cancelled_error"]
                  ELSE ObserverResult(obsState[futObs[f]]) IN
        /\ futState' = [futState EXCEPT ![f] = res.kind]
        /\ futValue' = [futValue EXCEPT ![f] = res.value]
    /\ feedPc' = [feedPc EXCEPT ![f] = "ended"]
    /\ UNCHANGED <<obsVars, runnerVars, futObs, futRunner, started, nfut, queue, callVars>>

\* feed (runner.py:215-217,224): unsubscribe, break, return observer.result()
feed_exit(f) ==
    /\ feedPc[f] = "exit"
    /\ subscribers' = Unsubscribe(subscribers, futObs[f])
    /\ LET res == ObserverResult(obsState[futObs[f]]) IN
        /\ futState' = [futState EXCEPT ![f] = res.kind]
        /\ futValue' = [futValue EXCEPT ![f] = res.value]
    /\ feedPc' = [feedPc EXCEPT ![f] = "ended"]
    /\ UNCHANGED <<obsVars, runnerVars, futObs, futRunner, started, nfut, queue, callVars>>

\* ---------------------------------------------------------------- wait_for
\* Future.cancel(): only a work item no worker has taken yet is cancelled
FutureCancel(s) == IF s = "queued" THEN "cancelled" ELSE s

\* wait_for (runner.py:152-160): locals, then the first test of the loop
wait_for_begin(f, timeout) ==
    /\ pc = "idle"
    /\ f \in handles
    /\ f \notin awaited
    /\ awaited' = awaited \cup {f}
    /\ LET remain == IF timeout # 0 THEN timeout ELSE obsTimeout[futObs[f]] IN
        /\ wf' = [elapsed |-> 0,
                  remain  |-> remain,
                  first   |-> remain,
                  timeout |-> timeout,
                  check   |-> (timeout = 0),
                  tick    |-> IF timeout # 0 THEN remain ELSE wait_tick,
                  steps   |-> <<>>]
        /\ pc' = IF remain > 0 THEN "wf_wait" ELSE "wf_unsubscribe"
    /\ cur' = [r |-> futRunner[f], o |-> futObs[f], f |-> f]
    /\ outcome' = NoOutcome
    /\ UNCHANGED <<obsVars, subscribers, runnerVars, futVars, handles, timedOut>>

\* a wait_for that takes the future as done without looking at it
wait_for_future_done_unchecked ==
    /\ pc = "wf_wait"
    /\ pc' = "wf_shutdown_done"
    /\ UNCHANGED <<obsVars, subscribers, runnerVars, futVars, cur, wf, outcome,
                   handles, awaited, timedOut>>

\* wait_for (runner.py:161-162): wait() returned the future as done
wait_for_future_done ==
    /\ pc = "wf_wait"
    /\ FutureDone(cur.f)
    /\ pc' = "wf_shutdown_done"
    /\ UNCHANGED <<obsVars, subscribers, runnerVars, futVars, cur, wf, outcome,
                   handles, awaited, timedOut>>

\* a deadline read from the observer at every tick, explicit timeout or not
TickTimeoutLive(w, o) == obsTimeout[o]

\* a deadline read from the observer once, before the loop
TickTimeoutStale(w, o) == IF w.check THEN w.first ELSE w.timeout

\* the deadline wait_for works with at a tick (runner.py:167-168)
TickTimeout(w, o) == IF w.check THEN obsTimeout[o] ELSE w.timeout

\* the time passed since start_time after one more tick (runner.py:152,169)
TickElapsed(w, o) == w.elapsed + w.tick

\* wait_for (runner.py:161,167-169,160): a tick passed, the future not done
wait_for_tick ==
    /\ pc = "wf_wait"
    /\ ~FutureDone(cur.f)
    /\ LET t == TickTimeout(wf, cur.o)
           e == TickElapsed(wf, cur.o) IN
        /\ wf' = [wf EXCEPT !.elapsed = e, !.timeout = t, !.remain = t - e]
        /\ pc' = IF t - e > 0 THEN "wf_wait" ELSE "wf_unsubscribe"
    /\ UNCHANGED <<obsVars, subscribers, runnerVars, futVars, cur, outcome,
                   handles, awaited, timedOut>>

\* wait_for (runner.py:163): self.shutdown()
wait_for_shutdown_done ==
    /\ pc = "wf_shutdown_done"
    /\ ShutdownFlags(cur.r)
    /\ pc' = "wf_result"
    /\ UNCHANGED <<obsVars, subscribers, futVars, cur, wf, outcome, handles, awaited, timedOut>>

\* Future.result(): what feed returned, or its exception raised again
FutureResult(f) ==
    CASE futState[f] = "returned" -> Outcome("wait_for", "returned", futValue[f], f)
      [] futState[f] = "raised"   -> Outcome("wait_for", "raised", futValue[f], f)
      [] OTHER                    -> Outcome("wait_for", "raised", "CancelledError", f)

\* wait_for (runner.py:164-166): result = future.result(); return result
wait_for_return ==
    /\ pc = "wf_result"
    /\ Joined(cur.r)
    /\ outcome' = FutureResult(cur.f)
    /\ pc' = "idle"
    /\ cur' = NoCall
    /\ wf' = NoWf
    /\ UNCHANGED <<obsVars, subscribers, runnerVars, futVars, handles, awaited, timedOut>>

\* a timeout path that clears the connection's whole subscriber list
wait_for_unsubscribe_all ==
    /\ pc = "wf_unsubscribe"
    /\ subscribers' = {}
    /\ wf' = [wf EXCEPT !.steps = Append(@, "unsubscribe")]
    /\ pc' = "wf_cancel_observer"
    /\ UNCHANGED <<obsVars, runnerVars, futVars, cur, outcome, handles, awaited, timedOut>>

\* wait_for (runner.py:170-171): moler_conn.unsubscribe(observer.data_received)
wait_for_unsubscribe ==
    /\ pc = "wf_unsubscribe"
    /\ subscribers' = Unsubscribe(subscribers, cur.o)
    /\ wf' = [wf EXCEPT !.steps = Append(@, "unsubscribe")]
    /\ pc' = "wf_cancel_observer"
    /\ UNCHANGED <<obsVars, runnerVars, futVars, cur, outcome, handles, awaited, timedOut>>

\* a timeout path that marks the observer cancelled whatever its state
wait_for_cancel_observer_forced ==
    /\ pc = "wf_cancel_observer"
    /\ obsState' = [obsState EXCEPT ![cur.o] = "Cancelled"]
    /\ cancelledBy' = CancelledBy(cur.o, "wait_for")
    /\ wf' = [wf EXCEPT !.steps = Append(@, "cancel_observer")]
    /\ pc' = "wf_cancel_future"
    /\ UNCHANGED <<obsTimeout, subscribers, runnerVars, futVars, cur, outcome,
                   handles, awaited, timedOut>>

\* wait_for (runner.py:174): connection_observer.cancel()
wait_for_cancel_observer ==
    /\ pc = "wf_cancel_observer"
    /\ obsState' = [obsState EXCEPT ![cur.o] = ObserverCancel(@)]
    /\ cancelledBy' = CancelledBy(cur.o, "wait_for")
    /\ wf' = [wf EXCEPT !.steps = Append(@, "cancel_observer")]
    /\ pc' = "wf_cancel_future"
    /\ UNCHANGED <<obsTimeout, subscribers, runnerVars, futVars, cur, outcome,
                   handles, awaited, timedOut>>

\* wait_for (runner.py:175): connection_observer_future.cancel()
wait_for_cancel_future ==
    /\ pc = "wf_cancel_future"
    /\ futState' = [futState EXCEPT ![cur.f] = FutureCancel(@)]
    /\ wf' = [wf EXCEPT !.steps = Append(@, "cancel_future")]
    /\ pc' = "wf_shutdown_timeout"
    /\ UNCHANGED <<obsVars, subscribers, runnerVars, futObs, futRunner, futValue,
                   feedPc, started, nfut, queue, cur, outcome, handles, awaited, timedOut>>

\* wait_for (runner.py:176): self.shutdown()
wait_for_shutdown_timeout ==
    /\ pc = "wf_shutdown_timeout"
    /\ ShutdownFlags(cur.r)
    /\ wf' = [wf EXCEPT !.steps = Append(@, "shutdown")]
    /\ pc' = "wf_on_timeout"
    /\ UNCHANGED <<obsVars, subscribers, futVars, cur, outcome, handles, awaited, timedOut>>

\* a timeout path that stores the timeout failure whatever the observer's state
wait_for_on_timeout_forced ==
    /\ pc = "wf_on_timeout"
    /\ Joined(cur.r)
    /\ obsState' = [obsState EXCEPT ![cur.o] = "Failure"]
    /\ wf' = [wf EXCEPT !.steps = Append(@, "on_timeout")]
    /\ pc' = "wf_raise"
    /\ UNCHANGED <<obsTimeout, cancelledBy, subscribers, runnerVars, futVars, cur, outcome,
                   handles, awaited, timedOut>>

\* wait_for (runner.py:177): connection_observer.on_timeout()
wait_for_on_timeout ==
    /\ pc = "wf_on_timeout"
    /\ Joined(cur.r)
    /\ obsState' = [obsState EXCEPT ![cur.o] = ObserverOnTimeout(@)]
    /\ wf' = [wf EXCEPT !.steps = Append(@, "on_timeout")]
    /\ pc' = "wf_raise"
    /\ UNCHANGED <<obsTimeout, cancelledBy, subscribers, runnerVars, futVars, cur, outcome,
                   handles, awaited, timedOut>>

\* the error of the timeout path (runner.py:178-181)
TimeoutError(o) ==
    IF HasCommandString(o) THEN "CommandTimeout" ELSE "ConnectionObserverTimeout"

\* wait_for (runner.py:178-181): raise the typed timeout
wait_for_raise ==
    /\ pc = "wf_raise"
    /\ outcome' = Outcome("wait_for", "raised", TimeoutError(cur.o), cur.f)
    /\ timedOut' = timedOut \cup {cur.o}
    /\ pc' = "idle"
    /\ cur' = NoCall
    /\ wf' = NoWf
    /\ UNCHANGED <<obsVars, subscribers, runnerVars, futVars, handles, awaited>>

\* ------------------------------------------------------------- environment
\* the connection delivers data to a subscribed observer, whose parsing
\* completes it (set_result) or fails it (set_exception)
data_received(o) ==
    /\ o \in subscribers
    /\ obsState[o] = "Pending"
    /\ \E s \in {"Success", "Failure"} : obsState' = [obsState EXCEPT ![o] = s]
    /\ UNCHANGED <<obsTimeout, cancelledBy, subscribers, runnerVars, futVars, callVars>>

\* another thread calls cancel() on an observer
cancel(o) ==
    /\ obsState[o] = "Pending"
    /\ \E f \in Futures : futState[f] = "running" /\ futObs[f] = o
    /\ obsState' = [obsState EXCEPT ![o] = ObserverCancel(@)]
    /\ cancelledBy' = CancelledBy(o, "thread")
    /\ UNCHANGED <<obsTimeout, subscribers, runnerVars, futVars, callVars>>

\* another thread changes the timeout of the observer wait_for is waiting for
set_timeout(o, t) ==
    /\ pc = "wf_wait"
    /\ o = cur.o
    /\ obsTimeout[o] # t
    /\ obsTimeout' = [obsTimeout EXCEPT ![o] = t]
    /\ UNCHANGED <<obsState, cancelledBy, subscribers, runnerVars, futVars, callVars>>

\* ---------------------------------------------------------- specifications
\* observers constructed with the same timeout budget
Init == InitRest /\ obsTimeout = [o \in Observers |-> MaxTimeout] /\ InitLoggers

\* two runners, two observers; wait_for without an explicit timeout, nobody
\* changes a timeout while it waits
Next ==
    \/ \E r \in Runners : shutdown(r)
    \/ \E r \in Runners : context_exit(r)
    \/ shutdown_return
    \/ \E r \in Runners, o \in Observers : submit_call(r, o)
    \/ submit_return
    \/ submit_raise
    \/ \E f \in Futures : feed_start(f)
    \/ \E f \in Futures : feed_started_set(f)
    \/ \E f \in Futures : feed_check_done(f)
    \/ \E f \in Futures : feed_check_shutdown(f)
    \/ \E f \in Futures : feed_exit(f)
    \/ \E f \in Futures : wait_for_begin(f, 0)
    \/ wait_for_future_done
    \/ wait_for_tick
    \/ wait_for_shutdown_done
    \/ wait_for_return
    \/ wait_for_unsubscribe
    \/ wait_for_cancel_observer
    \/ wait_for_cancel_future
    \/ wait_for_shutdown_timeout
    \/ wait_for_on_timeout
    \/ wait_for_raise
    \/ \E o \in Observers : data_received(o)
    \/ \E o \in Observers : cancel(o)

Spec == Init /\ [][Next]_vars

\* observers constructed with any timeout budget
InitTime ==
    /\ InitRest
    /\ \E t \in Timeouts : obsTimeout = [o \in Observers |-> t]
    /\ InitLoggers

\* one runner and one observer; wait_for with and without an explicit
\* timeout, while another thread changes the observer's timeout
NextTime ==
    \/ shutdown("r1")
    \/ shutdown_return
    \/ submit_call("r1", "a")
    \/ submit_return
    \/ submit_raise
    \/ \E f \in Futures : feed_start(f)
    \/ \E f \in Futures : feed_started_set(f)
    \/ \E f \in Futures : feed_check_done(f)
    \/ \E f \in Futures : feed_check_shutdown(f)
    \/ \E f \in Futures : feed_exit(f)
    \/ \E f \in Futures, t \in 0..MaxTimeout : wait_for_begin(f, t)
    \/ wait_for_future_done
    \/ wait_for_tick
    \/ wait_for_shutdown_done
    \/ wait_for_return
    \/ wait_for_unsubscribe
    \/ wait_for_cancel_observer
    \/ wait_for_cancel_future
    \/ wait_for_shutdown_timeout
    \/ wait_for_on_timeout
    \/ wait_for_raise
    \/ data_received("a")
    \/ \E t \in Timeouts : set_timeout("a", t)

SpecTime == InitTime /\ [][NextTime]_vars

\* the worker thread running a feed is scheduled again and again: each step
\* of a started feed is eventually taken
FeedFairness ==
    \A f \in Futures :
        /\ WF_vars(feed_started_set(f))
        /\ WF_vars(feed_check_done(f))
        /\ WF_vars(feed_check_shutdown(f))
        /\ WF_vars(feed_exit(f))

SpecFair == Init /\ [][Next]_vars /\ FeedFairness

\* ------------------------------------------------------------------ claims
TimeoutErrors == {"CommandTimeout", "ConnectionObserverTimeout"}

\* the caller's last call was a wait_for that raised the timeout
RaisedTimeout == outcome.call = "wait_for" /\ outcome.value \in TimeoutErrors

\* feeds of observer o that a worker is running
ActiveFeeds(o) == {f \in Futures : futState[f] = "running" /\ futObs[f] = o}

\* C1, the order of the timeout path: when wait_for is about to raise it has
\* unsubscribed the callback, then cancelled the observer, then cancelled the
\* handle, in this order.
C1_Order ==
    pc = "wf_raise" =>
        SubSeq(wf.steps, 1, 3) = <<"unsubscribe", "cancel_observer", "cancel_future">>

\* C1, the error: CommandTimeout exactly when the observer has a command_string.
C1_ErrorType ==
    RaisedTimeout =>
        (outcome.value = "CommandTimeout" <=> HasCommandString(futObs[outcome.f]))

\* C1, the subscriber list: once wait_for has raised the timeout for an
\* observer, its callback is not in the connection's subscriber list, and is
\* never in it again.
C1_NotResubscribed == \A o \in timedOut : o \notin subscribers

\* C1: on deadline expiry wait_for unsubscribes, cancels the observer, cancels
\* the handle and only then raises the typed timeout; once it has raised, the
\* callback is not in the subscriber list and is never re-added.
C1_TimeoutUnsubscribesBeforeRaising ==
    C1_Order /\ C1_ErrorType /\ C1_NotResubscribed

\* the positions of wait_for between the end of its loop and its raise
TimeoutPathPcs == {"wf_unsubscribe", "wf_cancel_observer", "wf_cancel_future",
                   "wf_shutdown_timeout", "wf_on_timeout", "wf_raise"}

\* C2: when the observer completes in the tick in which the deadline expires,
\* wait_for ends in exactly one way (it returns, having done nothing of the
\* timeout path, or it raises), the observer is in a terminal state once
\* wait_for has ended, and no step replaces a Done-Success state.
C2_TimeoutRace ==
    [][ /\ (outcome'.call = "wait_for" =>
                /\ outcome'.kind \in {"returned", "raised"}
                /\ obsState'[futObs'[outcome'.f]] \in Terminal)
        /\ (pc' \in {"wf_shutdown_done", "wf_result"} => wf'.steps = <<>>)
        /\ (\A o \in Observers : obsState[o] = "Success" => obsState'[o] = "Success")
      ]_vars

\* the race: wait_for raised the timeout for an observer that is Done-Success
C2_Witness ==
    /\ RaisedTimeout
    /\ obsState[futObs[outcome.f]] = "Success"

\* C3: wait_for returns (or re-raises) only when the handle has finished: the
\* observer is terminal and its feed has exited; it leaves its loop for the
\* timeout path only with the deadline elapsed; and what it returns or
\* re-raises is what feed produced, the observer's result or stored error.
C3_ReturnsWhatFeedProduced ==
    /\ pc \in {"wf_shutdown_done", "wf_result"} =>
            /\ feedPc[cur.f] = "ended"
            /\ futState[cur.f] \in {"returned", "raised"}
            /\ ObserverDone(cur.o)
    /\ pc \in TimeoutPathPcs => wf.remain <= 0
    /\ (outcome.call = "wait_for" /\ ~RaisedTimeout) =>
            /\ feedPc[outcome.f] = "ended"
            /\ outcome.kind = futState[outcome.f]
            /\ outcome.value = futValue[outcome.f]
            /\ ObserverResult(obsState[futObs[outcome.f]]) =
                   [kind |-> outcome.kind, value |-> outcome.value]

\* wait_for re-raised the error the observer had stored
C3_Witness ==
    /\ outcome.call = "wait_for"
    /\ outcome.kind = "raised"
    /\ outcome.value = "stored_error"

\* C4: without an explicit timeout, every tick compares the time passed since
\* the start with the observer's timeout as it is at that tick: wait_for
\* leaves its loop for the timeout path exactly at a tick at which the time
\* passed has reached that value; a tick adds one tick to the time passed and
\* a change of the timeout leaves the time passed alone (no restart).
C4_DeadlineReadEachTick ==
    [][ (pc = "wf_wait" /\ wf.check) =>
            /\ (pc' = "wf_unsubscribe" <=>
                    (wf' # wf /\ wf'.elapsed >= obsTimeout[cur.o]))
            /\ (wf' # wf /\ pc' \in {"wf_wait", "wf_unsubscribe"} =>
                    wf'.elapsed = wf.elapsed + wait_tick)
            /\ (obsTimeout' # obsTimeout => wf' = wf /\ pc' = pc)
      ]_vars

\* the timeout was raised while wait_for waited: it still waits although the
\* time passed has reached the value it read at the start
C4_Witness ==
    /\ pc = "wf_wait"
    /\ wf.check
    /\ wf.elapsed >= wf.first

\* the timeout was lowered while wait_for waited: it timed out before the
\* time passed reached the value it read at the start
C4_WitnessLowered ==
    /\ pc = "wf_unsubscribe"
    /\ wf.check
    /\ wf.elapsed < wf.first

\* C5: submit returns the handle exactly when the feed has set 'started'
\* within the grace period; the observer is then subscribed (unless it is
\* already done, when the feed may have unsubscribed it again); when the grace
\* period ends without the signal, submit raises the startup failure
\* (MolerException).  The only other way submit ends is the RuntimeError of an
\* executor that was shut down, raised before any grace period begins.
C5_HandleOnlyAfterStarted ==
    [][ (outcome' # outcome /\ outcome'.call = "submit") =>
            /\ (outcome'.kind = "handle" <=> (pc = "submit_wait" /\ started[cur.f]))
            /\ (outcome'.kind = "handle" =>
                    /\ outcome'.f = cur.f
                    /\ cur.f \in handles'
                    /\ (cur.o \in subscribers \/ ObserverDone(cur.o)))
            /\ (outcome'.kind # "handle" =>
                    /\ outcome'.kind = "raised"
                    /\ outcome'.value = IF pc = "submit_wait"
                                        THEN "MolerException" ELSE "RuntimeError"
                    /\ outcome'.f \notin handles')
      ]_vars

\* submit raised the startup failure with every worker of the executor
\* occupied by another feed
C5_Witness ==
    /\ outcome.call = "submit"
    /\ outcome.value = "MolerException"
    /\ futState[outcome.f] = "queued"
    /\ Cardinality(RunningOn(ExecutorOf(futRunner[outcome.f]))) = MaxWorkers

\* C6: at most one feed loop is active for a given observer.
C6_OneActiveFeedPerObserver ==
    \A o \in Observers : Cardinality(ActiveFeeds(o)) <= 1

\* C7: a feed that is active when its runner is in shutdown terminates (under
\* fair scheduling of the worker threads); at its next look at the flag it
\* cancels the observer if that is still Pending.
C7_FeedsEndAfterShutdown ==
    /\ \A f \in Futures :
          (futState[f] = "running" /\ inShutdown[futRunner[f]]) ~> (feedPc[f] = "ended")
    /\ [][ \A f \in Futures :
              (/\ feedPc[f] = "check_shutdown"
               /\ feedPc'[f] = "poll"
               /\ inShutdown[futRunner[f]]
               /\ obsState[futObs[f]] = "Pending") => obsState'[futObs[f]] = "Cancelled"
        ]_vars
    /\ [][ \A f \in Futures :
              (feedPc[f] # "ended" /\ feedPc'[f] = "ended") =>
                  /\ ObserverDone(futObs[f])
                  /\ futObs[f] \notin subscribers'
                  /\ futState'[f] \in {"returned", "raised"}
        ]_vars

\* a feed has ended as cancelled by the feed loop of a runner in shutdown that
\* does not own its executor: nothing but the flag stopped it
C7_Witness ==
    \E f \in Futures :
        /\ feedPc[f] = "ended"
        /\ ~iOwn[futRunner[f]]
        /\ inShutdown[futRunner[f]]
        /\ cancelledBy[futObs[f]] = "feed"
        /\ futValue[f] = "cancelled"

\* a step in which runner r's shutdown() sets its flags: called by the caller,
\* by the context manager or by wait_for
ShutdownStep(r) ==
    \/ pc = "idle" /\ pc' = "sd_join" /\ cur'.r = r
    \/ pc = "wf_shutdown_done" /\ pc' = "wf_result" /\ cur.r = r
    \/ pc = "wf_shutdown_timeout" /\ pc' = "wf_on_timeout" /\ cur.r = r

\* C8: shutdown() stops the executor exactly when the runner owns it; an
\* executor supplied by the caller is left as it is (not shut down, its queue
\* and futures unchanged) and is never shut down at all, so another runner
\* using it can still submit.
C8_ShutdownStopsOnlyOwnExecutor ==
    [][ /\ \A r \in Runners : ShutdownStep(r) =>
                IF iOwn[r]
                THEN exShutdown'[ExecutorOf(r)]
                ELSE exShutdown' = exShutdown /\ queue' = queue /\ futState' = futState
        /\ (exShutdown' # exShutdown => \E r \in Runners : ShutdownStep(r) /\ iOwn[r])
        /\ ~exShutdown'["ext"]
      ]_vars

\* after r1, which shares the executor, was shut down, r2 submitted an
\* observer and its feed has started
C8_Witness ==
    /\ ~iOwn["r1"]
    /\ inShutdown["r1"]
    /\ pc = "submit_wait"
    /\ cur.r = "r2"
    /\ started[cur.f]
    /\ obsState[cur.o] = "Pending"

\* C9: a call of shutdown() on a runner that was shut down before changes
\* nothing: flags, executor, futures, observers and subscribers stay as the
\* earlier call left them; and shutdown() ends by returning.
C9_ShutdownIdempotent ==
    [][ /\ \A r \in Runners : (ShutdownStep(r) /\ inShutdown[r]) =>
                UNCHANGED <<inShutdown, exShutdown, queue, futState, feedPc,
                            obsState, subscribers>>
        /\ (outcome'.call = "shutdown" => outcome'.kind = "returned")
      ]_vars

\* shutdown() called by the caller on a runner that a finished wait_for had
\* already shut down
C9_Witness ==
    /\ pc = "sd_join"
    /\ \E f \in awaited : futRunner[f] = cur.r

\* C10: feed raises only the error the observer has stored; a feed whose
\* observer it cancelled itself because of the shutdown returns (the
\* cancelled result), so its future never holds an exception.
C10_ShutdownCancelNeverRaises ==
    \A f \in Futures :
        /\ futState[f] = "raised" =>
              obsState[futObs[f]] = "Failure" /\ futValue[f] = "stored_error"
        /\ (feedPc[f] = "ended" /\ cancelledBy[futObs[f]] = "feed") =>
              futState[f] = "returned" /\ futValue[f] = "cancelled"

\* a feed has ended whose observer a feed loop cancelled under shutdown
C10_Witness ==
    \E f \in Futures : feedPc[f] = "ended" /\ cancelledBy[futObs[f]] = "feed"

\* ------------------------------------------------------- wait_for_iterator
\* how the generator ends once the future is done (runner.py:197-198):
\* future.result() re-raises what feed raised; otherwise the generator
\* executes 'raise StopIteration(res)'.  Interpreters before PEP 479 end the
\* iteration with res as its value; interpreters with PEP 479 (Python 3.7 and
\* later) turn a StopIteration raised inside a generator into a RuntimeError.
IteratorEnd(f, pep479) ==
    CASE futState[f] = "raised"   -> Outcome("wait_for_iterator", "raised", futValue[f], f)
      [] futState[f] = "returned" ->
            IF pep479
            THEN Outcome("wait_for_iterator", "raised", "RuntimeError", f)
            ELSE Outcome("wait_for_iterator", "stopped", futValue[f], f)
      [] OTHER                    -> Outcome("wait_for_iterator", "raised", "CancelledError", f)

\* one next() on the generator of wait_for_iterator (runner.py:194-198)
wait_for_iterator_next(f) ==
    /\ pc = "idle"
    /\ f \in handles
    /\ f \notin awaited
    /\ IF ~FutureDone(f)
       THEN /\ outcome' = Outcome("wait_for_iterator", "yielded", "None", f)
            /\ UNCHANGED awaited
       ELSE /\ \E pep479 \in BOOLEAN : outcome' = IteratorEnd(f, pep479)
            /\ awaited' = awaited \cup {f}
    /\ UNCHANGED <<obsVars, subscribers, runnerVars, futVars, pc, cur, wf, handles, timedOut>>

\* one runner, the caller iterating over its handles instead of blocking
NextIter ==
    \/ shutdown("r1")
    \/ shutdown_return
    \/ \E o \in Observers : submit_call("r1", o)
    \/ submit_return
    \/ submit_raise
    \/ \E f \in Futures : feed_start(f)
    \/ \E f \in Futures : feed_started_set(f)
    \/ \E f \in Futures : feed_check_done(f)
    \/ \E f \in Futures : feed_check_shutdown(f)
    \/ \E f \in Futures : feed_exit(f)
    \/ \E f \in Futures : wait_for_iterator_next(f)
    \/ \E o \in Observers : data_received(o)
    \/ \E o \in Observers : cancel(o)

SpecIter == Init /\ [][NextIter]_vars

\* a next() on the generator of wait_for_iterator ends in this step
IteratorStep == outcome' # outcome /\ outcome'.call = "wait_for_iterator"

\* C11 (parts that hold): a step taken while the handle is not done yields
\* None, and nothing but a yield of None happens before the handle is done.
C11_YieldsNoneUntilDone ==
    [][ IteratorStep =>
            (~FutureDone(outcome'.f) <=>
                (outcome'.kind = "yielded" /\ outcome'.value = "None")) ]_vars

\* C11: every step of the iterator returns control; a step taken while the
\* handle is not done yields None; the first step taken after the handle is
\* done ends the iteration with the handle's final result (or re-raises the
\* error feed raised).
C11_IteratorDeliversResult ==
    [][ IteratorStep =>
            IF FutureDone(outcome'.f)
            THEN /\ outcome'.value = futValue[outcome'.f]
                 /\ outcome'.kind = IF futState[outcome'.f] = "returned"
                                    THEN "stopped" ELSE "raised"
            ELSE outcome'.kind = "yielded" /\ outcome'.value = "None" ]_vars

\* ------------------------------------------------- cancel, then wait_for
\* the caller cancels an observer between two of its calls on the runner
cancel_by_caller(o) ==
    /\ pc = "idle"
    /\ cancel(o)

\* a tick of wait_for under the pace of the two loops: a feed polls every
\* 0.01 s (runner.py:221) and a wait_for without explicit timeout blocks in
\* wait() for 0.1 s (runner.py:155,161), so the feed of an observer that was
\* cancelled before the call ends before such a tick does.  With an explicit
\* timeout the one wait lasts as long as that timeout (runner.py:157-159),
\* which may be shorter than a poll of the feed.
wait_for_tick_paced ==
    /\ ~(wf.check /\ cancelledBy[cur.o] = "thread")
    /\ wait_for_tick

\* one runner; the caller submits, cancels, and waits with or without an
\* explicit timeout
NextCancel ==
    \/ shutdown("r1")
    \/ shutdown_return
    \/ \E o \in Observers : submit_call("r1", o)
    \/ submit_return
    \/ submit_raise
    \/ \E f \in Futures : feed_start(f)
    \/ \E f \in Futures : feed_started_set(f)
    \/ \E f \in Futures : feed_check_done(f)
    \/ \E f \in Futures : feed_check_shutdown(f)
    \/ \E f \in Futures : feed_exit(f)
    \/ \E f \in Futures, t \in 0..1 : wait_for_begin(f, t)
    \/ wait_for_future_done
    \/ wait_for_tick_paced
    \/ wait_for_shutdown_done
    \/ wait_for_return
    \/ wait_for_unsubscribe
    \/ wait_for_cancel_observer
    \/ wait_for_cancel_future
    \/ wait_for_shutdown_timeout
    \/ wait_for_on_timeout
    \/ wait_for_raise
    \/ \E o \in Observers : data_received(o)
    \/ \E o \in Observers : cancel_by_caller(o)

\* workers take queued work items and run their feeds; the caller thread
\* goes on once the future it waits for is done
CancelFairness ==
    /\ FeedFairness
    /\ \A f \in Futures : WF_vars(feed_start(f))
    /\ WF_vars(wait_for_future_done)
    /\ WF_vars(wait_for_shutdown_done)
    /\ WF_vars(wait_for_return)

SpecCancel == Init /\ [][NextCancel]_vars /\ CancelFairness

Suffix(tok, n) == SubSeq(tok, Len(tok) - n + 1, Len(tok))
EndsWith(tok, w) == Len(tok) >= Len(w) /\ Suffix(tok, Len(w)) = w
IsDigits(tok) == Len(tok) >= 1 /\ \A i \in 1..Len(tok) : tok[i] \in Digits

\* ([\w-]{10})\s+ : the ten characters before the whitespace
EndsWithPerm(tok) ==
    Len(tok) >= 10 /\ \A i \in (Len(tok) - 9)..Len(tok) : tok[i] \in PermChars

\* (\S.*\S) : at least two characters, whitespace allowed inside
DateOk(d) == Len(d) >= 2 \/ (Len(d) = 1 /\ Len(d[1]) >= 2)

\* the match object of a pattern found at token i of a line
MatchObj(re, groups) == [re |-> re, groups |-> groups]

\* Ls._re_total (ls.py:23): total\s+(\d+\S*)
TotalAt(line, i) ==
    /\ i + 1 <= Len(line)
    /\ EndsWith(line[i], <<"t", "o", "t", "a", "l">>)
    /\ line[i + 1][1] \in Digits

\* Ls._re_long (ls.py:24): perms, links, owner, group, size, date, name to
\* the end of the line
LongAt(line, i) ==
    /\ i + 6 <= Len(line)
    /\ EndsWithPerm(line[i])
    /\ IsDigits(line[i + 1])
    /\ DateOk(SubSeq(line, i + 5, Len(line) - 1))

\* Ls._re_long_links (ls.py:25): as _re_long, then -> and the target
LongLinksAt(line, i) ==
    /\ i + 8 <= Len(line)
    /\ EndsWithPerm(line[i])
    /\ IsDigits(line[i + 1])
    /\ line[Len(line) - 1] = <<"-", ">">>
    /\ DateOk(SubSeq(line, i + 5, Len(line) - 3))

\* Ls._re_files_list (ls.py:22): \S{2,}
FilesListAt(line, i) == Len(line[i]) >= 2

ReAt(re, line, i) ==
    CASE re = "_re_total"      -> TotalAt(line, i)
      [] re = "_re_long"       -> LongAt(line, i)
      [] re = "_re_long_links" -> LongLinksAt(line, i)
      [] re = "_re_files_list" -> FilesListAt(line, i)

\* the groups of the match that starts in token i
ReGroups(re, line, i) ==
    LET n == Len(line) IN
    CASE re = "_re_total"      -> <<line[i + 1]>>
      [] re = "_re_long"       ->
            <<Suffix(line[i], 10), line[i + 1], line[i + 2], line[i + 3], line[i + 4],
              SubSeq(line, i + 5, n - 1), line[n]>>
      [] re = "_re_long_links" ->
            <<Suffix(line[i], 10), line[i + 1], line[i + 2], line[i + 3], line[i + 4],
              SubSeq(line, i + 5, n - 3), line[n - 2], line[n]>>
      [] re = "_re_files_list" -> <<>>

\* compiled.search(string): the leftmost match, or None
ReSearch(re, line) ==
    LET hits == {i \in 1..Len(line) : ReAt(re, line, i)} IN
    IF hits = {} THEN NoMatch
    ELSE LET i == CHOOSE i \in hits : \A j \in hits : i <= j IN
         MatchObj(re, ReGroups(re, line, i))

\* match.group(n), n >= 1
Group(m, n) == m.groups[n]

\* --------------------------------------------------------- ConverterHelper
\* natural numbers of any size, as sequences of decimal digits
DigitValue == [c \in Digits |->
    CASE c = "0" -> 0 [] c = "1" -> 1 [] c = "2" -> 2 [] c = "3" -> 3 [] c = "4" -> 4
      [] c = "5" -> 5 [] c = "6" -> 6 [] c = "7" -> 7 [] c = "8" -> 8 [] c = "9" -> 9]

RECURSIVE StripZeros(_)
StripZeros(d) == IF Len(d) > 1 /\ d[1] = 0 THEN StripZeros(Tail(d)) ELSE d

\* int(token) for a token of digits
ToInt(tok) == StripZeros([i \in 1..Len(tok) |-> DigitValue[tok[i]]])

Front(d) == SubSeq(d, 1, Len(d) - 1)

RECURSIVE MulCarry(_, _, _)
MulCarry(d, m, carry) ==
    IF d = <<>>
    THEN IF carry = 0 THEN <<>> ELSE Append(MulCarry(<<>>, m, carry \div 10), carry % 10)
    ELSE LET v == d[Len(d)] * m + carry IN
         Append(MulCarry(Front(d), m, v \div 10), v % 10)

\* d * m for a small m
MulSmall(d, m) == StripZeros(LET r == MulCarry(d, m, 0) IN IF r = <<>> THEN <<0>> ELSE r)

RECURSIVE MulPow1024(_, _)
MulPow1024(d, k) == IF k = 0 THEN d ELSE MulPow1024(MulSmall(d, 1024), k - 1)

\* the integer part of d / 10^k
DivPow10(d, k) == IF Len(d) <= k THEN <<0>> ELSE SubSeq(d, 1, Len(d) - k)

UnitIndex(c) ==
    CASE c = "K" -> 1 [] c = "M" -> 2 [] c = "G" -> 3 [] c = "T" -> 4 [] OTHER -> 0 - 1

\* position of the decimal point in a token, 0 if there is none
DotAt(tok) ==
    IF \E i \in 1..Len(tok) : tok[i] = "."
    THEN CHOOSE i \in 1..Len(tok) : tok[i] = "." /\ \A j \in 1..(i - 1) : tok[j] # "."
    ELSE 0

\* what to_bytes gives for a token that is no size: the conversion raises
BadSize == <<>>

\* to_bytes that drops the digits after the decimal point
to_bytes_whole(tok) ==
    LET hasUnit == tok[Len(tok)] \in Letters
        idx     == IF hasUnit THEN UnitIndex(tok[Len(tok)]) ELSE 0
        num     == IF hasUnit THEN Front(tok) ELSE tok
        dot     == DotAt(num)
        whole   == IF dot = 0 THEN num ELSE SubSeq(num, 1, dot - 1)
    IN  IF idx < 0 \/ ~IsDigits(whole)
        THEN BadSize
        ELSE MulPow1024(ToInt(whole), idx)

\* to_bytes(token)[0]: <number><unit> is number * 1024^index of the unit;
\* BadSize for a token that is no such size
to_bytes(tok) ==
    LET hasUnit == tok[Len(tok)] \in Letters
        idx     == IF hasUnit THEN UnitIndex(tok[Len(tok)]) ELSE 0
        num     == IF hasUnit THEN Front(tok) ELSE tok
        dot     == DotAt(num)
        whole   == IF dot = 0 THEN num ELSE SubSeq(num, 1, dot - 1)
        frac    == IF dot = 0 THEN <<>> ELSE SubSeq(num, dot + 1, Len(num))
    IN  IF idx < 0 \/ ~IsDigits(whole) \/ (frac # <<>> /\ ~IsDigits(frac))
        THEN BadSize
        ELSE DivPow10(MulPow1024(ToInt(whole \o frac), idx), Len(frac))

\* ---------------------------------------------------------------------- Ls
MaxLines == 4        \* lines delivered to one command

\* what a parse method leaves behind: the result dict, the helper's match,
\* whether it consumed the line (raised ParsingDone), whether a conversion
\* failed inside it
Parsed(ret, m, by, error) == [ret |-> ret, match |-> m, by |-> by, error |-> error]

\* Ls._parse_total (ls.py:90-96), after its search matched
SetTotal(ret, m) ==
    LET t0 == IF "total" \in DOMAIN ret THEN ret["total"] ELSE EmptyDict
        t1 == DictSet(t0, "raw", Group(m, 1))
        b  == to_bytes(Group(m, 1))
    IN  IF b = BadSize
        THEN Parsed(DictSet(ret, "total", t1), m, "_parse_total", TRUE)
        ELSE Parsed(DictSet(ret, "total", DictSet(t1, "bytes", b)), m, "_parse_total", FALSE)

\* _add_new_file_long that never stores the link target
AddNewFileLongNoLink(ret, m, islink, by) ==
    LET filename == Group(m, 7)
        e8 == [permissions      |-> Group(m, 1),
               hard_links_count |-> ToInt(Group(m, 2)),
               owner            |-> Group(m, 3),
               group            |-> Group(m, 4),
               size_raw         |-> Group(m, 5),
               size_bytes       |-> to_bytes(Group(m, 5)),
               date             |-> Group(m, 6),
               name             |-> Group(m, 7)]
    IN  Parsed([ret EXCEPT !.files = DictSet(@, filename, e8)], m, by, FALSE)

\* _add_new_file_long that writes the fields into the record already stored
\* under the name
AddNewFileLongMerging(ret, m, islink, by) ==
    LET filename == Group(m, 7)
        old == IF filename \in DOMAIN ret.files THEN ret.files[filename] ELSE EmptyDict
        e8  == [permissions      |-> Group(m, 1),
                hard_links_count |-> ToInt(Group(m, 2)),
                owner            |-> Group(m, 3),
                group            |-> Group(m, 4),
                size_raw         |-> Group(m, 5),
                size_bytes       |-> to_bytes(Group(m, 5)),
                date             |-> Group(m, 6),
                name             |-> Group(m, 7)]
        e   == IF islink THEN DictSet(e8, "link", Group(m, 8)) ELSE e8
        new == [x \in (DOMAIN old) \cup (DOMAIN e) |-> IF x \in DOMAIN e THEN e[x] ELSE old[x]]
    IN  Parsed([ret EXCEPT !.files = DictSet(@, filename, new)], m, by, FALSE)

\* Ls._add_new_file_long (ls.py:98-116)
AddNewFileLong(ret, m, islink, by) ==
    LET filename == Group(m, 7)
        e5 == [permissions      |-> Group(m, 1),
               hard_links_count |-> ToInt(Group(m, 2)),
               owner            |-> Group(m, 3),
               group            |-> Group(m, 4),
               size_raw         |-> Group(m, 5)]
        b  == to_bytes(Group(m, 5))
        e8 == DictSet(DictSet(DictSet(e5, "size_bytes", b), "date", Group(m, 6)),
                      "name", Group(m, 7))
        e  == IF islink THEN DictSet(e8, "link", Group(m, 8)) ELSE e8
    IN  IF b = BadSize
        THEN Parsed([ret EXCEPT !.files = DictSet(@, filename, e5)], m, by, TRUE)
        ELSE Parsed([ret EXCEPT !.files = DictSet(@, filename, e)], m, by, FALSE)

\* Ls._parse_files_list (ls.py:72-78), after its search matched
RECURSIVE AddNames(_, _)
AddNames(files, names) ==
    IF names = <<>> THEN files
    ELSE AddNames(DictSet(files, Head(names), [name |-> Head(names)]), Tail(names))

\* the parse chain with _parse_long_file tried before _parse_long_links
ParseLineLongFirst(ret, line) ==
    LET mt == ReSearch("_re_total", line) IN
    IF mt # NoMatch THEN SetTotal(ret, mt) ELSE
    LET mf == ReSearch("_re_long", line) IN
    IF mf # NoMatch THEN AddNewFileLong(ret, mf, FALSE, "_parse_long_file") ELSE
    LET ml == ReSearch("_re_long_links", line) IN
    IF ml # NoMatch THEN AddNewFileLong(ret, ml, TRUE, "_parse_long_links") ELSE
    LET mn == ReSearch("_re_files_list", line) IN
    IF mn # NoMatch
    THEN Parsed([ret EXCEPT !.files = AddNames(@, line)], mn, "_parse_files_list", FALSE)
    ELSE Parsed(ret, NoMatch, "none", FALSE)

\* the parse chain with _parse_files_list tried first
ParseLineNamesFirst(ret, line) ==
    LET mn == ReSearch("_re_files_list", line) IN
    IF mn # NoMatch
    THEN Parsed([ret EXCEPT !.files = AddNames(@, line)], mn, "_parse_files_list", FALSE)
    ELSE
    LET mt == ReSearch("_re_total", line) IN
    IF mt # NoMatch THEN SetTotal(ret, mt) ELSE
    LET ml == ReSearch("_re_long_links", line) IN
    IF ml # NoMatch THEN AddNewFileLong(ret, ml, TRUE, "_parse_long_links") ELSE
    LET mf == ReSearch("_re_long", line) IN
    IF mf # NoMatch THEN AddNewFileLong(ret, mf, FALSE, "_parse_long_file")
    ELSE Parsed(ret, NoMatch, "none", FALSE)

\* the body of 'if is_full_line' in Ls.on_new_line (ls.py:63-69)
ParseLine(ret, line) ==
    LET mt == ReSearch("_re_total", line) IN
    IF mt # NoMatch THEN SetTotal(ret, mt) ELSE
    LET ml == ReSearch("_re_long_links", line) IN
    IF ml # NoMatch THEN AddNewFileLong(ret, ml, TRUE, "_parse_long_links") ELSE
    LET mf == ReSearch("_re_long", line) IN
    IF mf # NoMatch THEN AddNewFileLong(ret, mf, FALSE, "_parse_long_file") ELSE
    LET mn == ReSearch("_re_files_list", line) IN
    IF mn # NoMatch
    THEN Parsed([ret EXCEPT !.files = AddNames(@, line)], mn, "_parse_files_list", FALSE)
    ELSE Parsed(ret, NoMatch, "none", FALSE)

\* the line the base class takes as the end of the command's output
IsPrompt(line) == line = Line_prompt

\* the lines a device sends
LsLines == {Line_total, Line_bin, Line_bcn, Line_plain, Line_prompt}

\* the command is observer "a"
Cmd == "a"

\* on_new_line without the 'except ParsingDone': the signal of the parse
\* method that consumed the line leaves on_new_line
on_new_line_signal_escaping(line, is_full_line) ==
    /\ obsState[Cmd] = "Pending"
    /\ Len(fed) < MaxLines
    /\ fed' = Append(fed, [line |-> line, full |-> is_full_line])
    /\ LET r == IF is_full_line THEN ParseLine(current_ret, line)
                ELSE Parsed(current_ret, regex_match, "none", FALSE) IN
        /\ current_ret' = r.ret
        /\ regex_match' = r.match
        /\ last_ok' = IF is_full_line /\ r.match # NoMatch THEN r.match ELSE last_ok
        /\ ls_out' = IF r.by # "none"
                     THEN LsOut("on_new_line", "raised", "ParsingDone")
                     ELSE LsOut("on_new_line", "returned", r.by)
        /\ obsState' = [obsState EXCEPT ![Cmd] =
                            IF r.by # "none" THEN "Failure"
                            ELSE IF IsPrompt(line) THEN "Success" ELSE @]
    /\ UNCHANGED <<obsTimeout, cancelledBy, subscribers, inShutdown, iOwn, exShutdown,
                   futVars, callVars, parsing, logVars>>

\* on_new_line that runs the parse chain on partial lines too
on_new_line_parsing_partial(line, is_full_line) ==
    /\ obsState[Cmd] = "Pending"
    /\ Len(fed) < MaxLines
    /\ fed' = Append(fed, [line |-> line, full |-> is_full_line])
    /\ LET r == ParseLine(current_ret, line) IN
        /\ current_ret' = r.ret
        /\ regex_match' = r.match
        /\ last_ok' = IF r.match # NoMatch THEN r.match ELSE last_ok
        /\ ls_out' = LsOut("on_new_line", IF r.error THEN "raised" ELSE "returned", r.by)
        /\ obsState' = [obsState EXCEPT ![Cmd] =
                            IF r.error THEN "Failure"
                            ELSE IF IsPrompt(line) THEN "Success" ELSE @]
    /\ UNCHANGED <<obsTimeout, cancelledBy, subscribers, inShutdown, iOwn, exShutdown,
                   futVars, callVars, parsing, logVars>>

\* Ls.on_new_line (ls.py:54-70); the base class stores a conversion error
\* as the command's error and completes the command on the prompt
on_new_line(line, is_full_line) ==
    /\ obsState[Cmd] = "Pending"
    /\ Len(fed) < MaxLines
    /\ fed' = Append(fed, [line |-> line, full |-> is_full_line])
    /\ LET r == IF is_full_line THEN ParseLine(current_ret, line)
                ELSE Parsed(current_ret, regex_match, "none", FALSE) IN
        /\ current_ret' = r.ret
        /\ regex_match' = r.match
        /\ last_ok' = IF is_full_line /\ r.match # NoMatch THEN r.match ELSE last_ok
        /\ ls_out' = LsOut("on_new_line", IF r.error THEN "raised" ELSE "returned", r.by)
        /\ obsState' = [obsState EXCEPT ![Cmd] =
                            IF r.error THEN "Failure"
                            ELSE IF IsPrompt(line) THEN "Success" ELSE @]
    /\ UNCHANGED <<obsTimeout, cancelledBy, subscribers, inShutdown, iOwn, exShutdown,
                   futVars, callVars, parsing, logVars>>

\* _get_types without the done() check
GetTypesUnguarded(requested_type) ==
    LET files == current_ret.files IN
    IF \E n \in DOMAIN files : "permissions" \notin DOMAIN files[n]
    THEN [kind |-> "raised", value |-> "KeyError"]
    ELSE [kind  |-> "returned",
          value |-> [n \in {x \in DOMAIN files :
                               files[x]["permissions"][1] = requested_type}
                     |-> files[n]]]

\* Ls._get_types (ls.py:118-136)
GetTypes(requested_type) ==
    IF ~ObserverDone(Cmd)
    THEN [kind |-> "raised", value |-> "ResultNotAvailableYet"]
    ELSE IF obsState[Cmd] # "Success"
    THEN ObserverResult(obsState[Cmd])
    ELSE LET files == current_ret.files IN
         IF \E n \in DOMAIN files : "permissions" \notin DOMAIN files[n]
         THEN [kind |-> "raised", value |-> "KeyError"]
         ELSE [kind  |-> "returned",
               value |-> [n \in {x \in DOMAIN files :
                                    files[x]["permissions"][1] = requested_type}
                          |-> files[n]]]

accessor(call, requested_type) ==
    /\ ls_out' = LET r == GetTypes(requested_type) IN LsOut(call, r.kind, r.value)
    /\ UNCHANGED <<obsVars, subscribers, inShutdown, iOwn, exShutdown, futVars, callVars,
                   current_ret, regex_match, last_ok, fed, parsing, logVars>>

\* Ls.get_dirs / get_links / get_files (ls.py:138-157)
get_dirs  == accessor("get_dirs", "d")
get_links == accessor("get_links", "l")
get_files == accessor("get_files", "-")

NextLs ==
    \/ \E line \in LsLines, is_full_line \in BOOLEAN : on_new_line(line, is_full_line)
    \/ get_dirs
    \/ get_links
    \/ get_files

SpecLs == Init /\ [][NextLs]_vars

\* ------------------------------------------------------------ claims: Ls
\* the parse methods in the order on_new_line calls them (ls.py:64-67)
PredicateOrder == <<"_re_total", "_re_long_links", "_re_long", "_re_files_list">>
MethodOf == <<"_parse_total", "_parse_long_links", "_parse_long_file", "_parse_files_list">>

\* the first predicate, in that order, whose pattern is found in the line;
\* 0 when none is
FirstApplicable(line) ==
    LET hits == {k \in 1..Len(PredicateOrder) : ReSearch(PredicateOrder[k], line) # NoMatch}
    IN  IF hits = {} THEN 0 ELSE CHOOSE k \in hits : \A j \in hits : k <= j

\* the side effect of predicate k alone on the result
EffectOf(k, ret, line) ==
    CASE k = 0 -> ret
      [] k = 1 -> SetTotal(ret, ReSearch("_re_total", line)).ret
      [] k = 2 -> AddNewFileLong(ret, ReSearch("_re_long_links", line), TRUE, "").ret
      [] k = 3 -> AddNewFileLong(ret, ReSearch("_re_long", line), FALSE, "").ret
      [] k = 4 -> [ret EXCEPT !.files = AddNames(@, line)]

LastFed(h) == h[Len(h)]

\* C15: for every full line the result changes by the side effect of the
\* first predicate, in the order total, long-format symlink, long-format
\* entry, filename list, whose pattern is found in the line, and by nothing
\* else; on_new_line reports that predicate as the one that consumed the line
C15_FirstMatchWins ==
    [][(fed' # fed /\ LastFed(fed').full) =>
          LET line == LastFed(fed').line
              k    == FirstApplicable(line)
          IN  /\ current_ret' = EffectOf(k, current_ret, line)
              /\ ls_out'.value = (IF k = 0 THEN "none" ELSE MethodOf[k])
              /\ regex_match' = (IF k = 0 THEN NoMatch
                                 ELSE ReSearch(PredicateOrder[k], line))]_vars

\* a symlink line, which the long-format entry pattern matches as well, was
\* consumed by the symlink predicate alone
C15_Witness ==
    /\ fed # <<>>
    /\ LastFed(fed) = [line |-> Line_bcn, full |-> TRUE]
    /\ ls_out = LsOut("on_new_line", "returned", "_parse_long_links")
    /\ ReSearch("_re_long", Line_bcn) # NoMatch
    /\ ReSearch("_re_files_list", Line_bcn) # NoMatch
    /\ Line_bcn[9] \in DOMAIN current_ret.files
    /\ "link" \in DOMAIN current_ret.files[Line_bcn[9]]
    /\ Line_bcn[11] \notin DOMAIN current_ret.files

\* C16: on_new_line leaves the accumulated result and the helper's match
\* as they are for every partial line
C16_PartialLineNotParsed ==
    [][(fed' # fed /\ ~LastFed(fed').full) =>
          /\ current_ret' = current_ret
          /\ regex_match' = regex_match
          /\ ls_out'.value = "none"]_vars

\* a long-format line came first without, then with its line end: only the
\* second delivery stored the entry
C16_Witness ==
    /\ Len(fed) = 2
    /\ fed[1] = [line |-> Line_bin, full |-> FALSE]
    /\ fed[2] = [line |-> Line_bin, full |-> TRUE]
    /\ DOMAIN current_ret.files = {Line_bin[9]}

Accessors == {"get_dirs", "get_links", "get_files"}

\* C17: an accessor called while the command is not done raises
\* ResultNotAvailableYet, whatever was parsed so far
C17_AccessorsNeedDone ==
    (ls_out.call \in Accessors /\ ~ObserverDone(Cmd)) =>
        (ls_out.kind = "raised" /\ ls_out.value = "ResultNotAvailableYet")

\* get_dirs raised although a directory entry was already parsed
C17_Witness ==
    /\ ls_out = LsOut("get_dirs", "raised", "ResultNotAvailableYet")
    /\ ~ObserverDone(Cmd)
    /\ Line_bin[9] \in DOMAIN current_ret.files
    /\ current_ret.files[Line_bin[9]]["permissions"][1] = "d"

\* the long listing: total 8, bin, bcn -> /bcn as full lines, then the prompt
FedLong ==
    <<[line |-> Line_total,  full |-> TRUE],
      [line |-> Line_bin,    full |-> TRUE],
      [line |-> Line_bcn,    full |-> TRUE],
      [line |-> Line_prompt, full |-> FALSE]>>

\* C18: after the long listing the result holds total 8 / 8, bin as a
\* directory of 4096 bytes and bcn as a link to /bcn; get_dirs returns only
\* bin and get_links only bcn
C18_LongListing ==
    fed = FedLong =>
        /\ obsState[Cmd] = "Success"
        /\ current_ret.total = [raw |-> <<"8">>, bytes |-> <<8>>]
        /\ DOMAIN current_ret.files = {Line_bin[9], Line_bcn[9]}
        /\ current_ret.files[Line_bin[9]]["permissions"] = Line_bin[1]
        /\ current_ret.files[Line_bin[9]]["size_bytes"] = <<4, 0, 9, 6>>
        /\ "link" \in DOMAIN current_ret.files[Line_bcn[9]]
        /\ current_ret.files[Line_bcn[9]]["link"] = Line_bcn[11]
        /\ "link" \notin DOMAIN current_ret.files[Line_bin[9]]
        /\ GetTypes("d") = [kind |-> "returned",
                            value |-> [n \in {Line_bin[9]} |-> current_ret.files[n]]]
        /\ GetTypes("l") = [kind |-> "returned",
                            value |-> [n \in {Line_bcn[9]} |-> current_ret.files[n]]]
        /\ (ls_out.call = "get_dirs" => DOMAIN ls_out.value = {Line_bin[9]})
        /\ (ls_out.call = "get_links" => DOMAIN ls_out.value = {Line_bcn[9]})

\* get_links was called after the long listing
C18_Witness ==
    /\ fed = FedLong
    /\ ls_out.call = "get_links"
    /\ ls_out.kind = "returned"

\* ------------------------------------------------- claims: size conversion
\* the lines of COMMAND_OUTPUT_ver_human (ls.py:160-168)
HumanLine(size, name) ==
    <<<<"-", "r", "w", "x", "r", "-", "x", "r", "-", "x">>, <<"2">>,
      <<"r", "o", "o", "t">>, <<"r", "o", "o", "t">>, size,
      <<"N", "o", "v">>, <<"1", "0">>, <<"2", "0", "1", "6">>, name>>

Line_total_human == <<<<"t", "o", "t", "a", "l">>, <<"1", "T">>>>
Line_file1 == HumanLine(<<"4", ".", "0", "K">>, <<"f", "i", "l", "e", "1">>)
Line_file2 == HumanLine(<<"4", ".", "5", "M">>, <<"f", "i", "l", "e", "2">>)
Line_file3 == HumanLine(<<"3", ".", "0", "G">>, <<"f", "i", "l", "e", "3">>)
Line_file4 == HumanLine(<<"1", ".", "0", "T">>, <<"f", "i", "l", "e", "4">>)
Line_file5 == HumanLine(<<"9", "2">>, <<"f", "i", "l", "e", "5">>)

HumanLines ==
    {Line_total_human, Line_file1, Line_file2, Line_file3, Line_file4, Line_file5,
     Line_prompt}

NextHuman ==
    \/ \E line \in HumanLines, is_full_line \in BOOLEAN : on_new_line(line, is_full_line)
    \/ get_files

SpecHuman == Init /\ [][NextHuman]_vars

\* COMMAND_RESULT_ver_human (ls.py:172-190): size token, bytes as decimal digits
SizeTable ==
    {<<<<"4", ".", "0", "K">>, <<4, 0, 9, 6>>>>,
     <<<<"4", ".", "5", "M">>, <<4, 7, 1, 8, 5, 9, 2>>>>,
     <<<<"3", ".", "0", "G">>, <<3, 2, 2, 1, 2, 2, 5, 4, 7, 2>>>>,
     <<<<"1", ".", "0", "T">>, <<1, 0, 9, 9, 5, 1, 1, 6, 2, 7, 7, 7, 6>>>>,
     <<<<"1", "T">>,           <<1, 0, 9, 9, 5, 1, 1, 6, 2, 7, 7, 7, 6>>>>,
     <<<<"9", "2">>,           <<9, 2>>>>}

\* C19: every stored size is the byte count the table gives for its token
\* (4.5M is 4718592, 4.0K is 4096, 3.0G is 3221225472, 1T and 1.0T are
\* 1099511627776, 92 is 92), and size_raw / total.raw is the token of the
\* line that was parsed
C19_SizeConversion ==
    /\ \A n \in DOMAIN current_ret.files :
          "size_raw" \in DOMAIN current_ret.files[n] =>
              /\ "size_bytes" \in DOMAIN current_ret.files[n]
              /\ <<current_ret.files[n]["size_raw"], current_ret.files[n]["size_bytes"]>>
                     \in SizeTable
              /\ \E i \in 1..Len(fed) :
                    /\ fed[i].full
                    /\ fed[i].line \in HumanLines \ {Line_total_human, Line_prompt}
                    /\ fed[i].line[9] = n
                    /\ fed[i].line[5] = current_ret.files[n]["size_raw"]
    /\ "total" \in DOMAIN current_ret =>
          current_ret.total = [raw   |-> <<"1", "T">>,
                               bytes |-> <<1, 0, 9, 9, 5, 1, 1, 6, 2, 7, 7, 7, 6>>]

\* total 1T and the fractional sizes 4.5M, 3.0G and 1.0T were parsed
C19_Witness ==
    /\ "total" \in DOMAIN current_ret
    /\ {Line_file2[9], Line_file3[9], Line_file4[9]} \subseteq DOMAIN current_ret.files
    /\ current_ret.files[Line_file2[9]]["size_bytes"] = <<4, 7, 1, 8, 5, 9, 2>>

\* the sizes without a fraction were parsed
C19_WitnessPlain ==
    /\ {Line_file1[9], Line_file5[9]} \subseteq DOMAIN current_ret.files
    /\ current_ret.files[Line_file5[9]]["size_bytes"] = <<9, 2>>

\* -------------------------------------------------------------- RegexHelper
\* compiled.match(string): the match that starts at the first character, or
\* None
ReMatch(re, line) ==
    IF /\ ReAt(re, line, 1)
       /\ CASE re = "_re_total"      -> Len(line[1]) = 5
            [] re = "_re_long"       -> Len(line[1]) = 10
            [] re = "_re_long_links" -> Len(line[1]) = 10
            [] re = "_re_files_list" -> TRUE
    THEN MatchObj(re, ReGroups(re, line, 1))
    ELSE NoMatch

Patterns == {"_re_total", "_re_long", "_re_long_links", "_re_files_list"}
MaxGroup == 2        \* group numbers asked for

regexFrame ==
    UNCHANGED <<obsVars, subscribers, inShutdown, iOwn, exShutdown, futVars, callVars,
                current_ret, fed, parsing, logVars>>

\* self.match = <result>; return self.match
StoreMatch(call, m) ==
    /\ regex_match' = m
    /\ last_ok' = IF m # NoMatch THEN m ELSE last_ok
    /\ ls_out' = LsOut(call, "returned", m)
    /\ regexFrame

\* RegexHelper.search (cmd/__init__.py:18-20)
search(pattern, string) == StoreMatch("search", ReSearch(pattern, string))

\* RegexHelper.search_compiled (cmd/__init__.py:22-24)
search_compiled(compiled, string) == StoreMatch("search_compiled", ReSearch(compiled, string))

\* RegexHelper.match_compiled (cmd/__init__.py:30-32)
match_compiled(compiled, string) == StoreMatch("match_compiled", ReMatch(compiled, string))

\* helper.match(pattern, string): __init__ stored None, and the searches a
\* match object or None, in the instance attribute of the same name
\* (cmd/__init__.py:16,19,23,31), so the call finds that and not the method
\* of lines 26-28
match(pattern, string) ==
    /\ ls_out' = LsOut("match", "raised", "TypeError")
    /\ UNCHANGED <<regex_match, last_ok>>
    /\ regexFrame

\* RegexHelper.get_match (cmd/__init__.py:34-35)
get_match ==
    /\ ls_out' = LsOut("get_match", "returned", regex_match)
    /\ UNCHANGED <<regex_match, last_ok>>
    /\ regexFrame

\* RegexHelper.group (cmd/__init__.py:37-38)
group(number) ==
    /\ ls_out' = IF regex_match = NoMatch
                 THEN LsOut("group", "raised", "AttributeError")
                 ELSE IF number > Len(regex_match.groups)
                 THEN LsOut("group", "raised", "IndexError")
                 ELSE LsOut("group", "returned", Group(regex_match, number))
    /\ UNCHANGED <<regex_match, last_ok>>
    /\ regexFrame

NextRegex ==
    \/ \E pattern \in Patterns, string \in LsLines : search(pattern, string)
    \/ \E compiled \in Patterns, string \in LsLines : search_compiled(compiled, string)
    \/ \E compiled \in Patterns, string \in LsLines : match_compiled(compiled, string)
    \/ \E pattern \in Patterns, string \in LsLines : match(pattern, string)
    \/ get_match
    \/ \E number \in 1..MaxGroup : group(number)

SpecRegex == Init /\ [][NextRegex]_vars

\* C20: once a search or match has succeeded, the helper holds the most
\* recent successful match, also after later searches that found nothing
C20_HoldsLastSuccessfulMatch ==
    last_ok # NoMatch => regex_match = last_ok

\* C20: group(n) after a success reads that match and does not fail for
\* want of one
C20_GroupReadsLastSuccessfulMatch ==
    (ls_out.call = "group" /\ ls_out.kind = "raised" /\ last_ok # NoMatch) =>
        ls_out.value = "IndexError"

\* C20: the match method can be called
C20_MatchCallable ==
    ls_out.call = "match" => ls_out.kind = "returned"

\* ------------------------------------------- two commands, one RegexHelper
\* Both commands use the instance of RegexHelper.get_regex_helper
\* (cmd/__init__.py:40-44); each runs on_new_line on its own thread, and a
\* thread may be preempted between the search of a parse method (ls.py:91)
\* and its group() calls (ls.py:94-95).
sharedFrame ==
    UNCHANGED <<obsVars, subscribers, inShutdown, iOwn, exShutdown, futVars, callVars,
                current_ret, fed, ls_out, logVars>>

\* on_new_line(line, True) entered (ls.py:62-63)
parse_begin(o, line) ==
    /\ parsing[o].pc \in {"idle", "done"}
    /\ parsing' = [parsing EXCEPT ![o] =
                      [pc |-> "search", k |-> 1, line |-> line,
                       found |-> NoMatch, got |-> NoMatch]]
    /\ UNCHANGED <<regex_match, last_ok>>
    /\ sharedFrame

\* the search_compiled call of the k-th parse method (ls.py:73,81,86,91)
parse_search(o) ==
    /\ parsing[o].pc = "search"
    /\ LET m == ReSearch(PredicateOrder[parsing[o].k], parsing[o].line) IN
        /\ regex_match' = m
        /\ last_ok' = IF m # NoMatch THEN m ELSE last_ok
        /\ parsing' = [parsing EXCEPT ![o] =
              IF m # NoMatch THEN [@ EXCEPT !.pc = "read", !.found = m]
              ELSE IF parsing[o].k < Len(PredicateOrder) THEN [@ EXCEPT !.k = @ + 1]
              ELSE [@ EXCEPT !.pc = "done"]]
    /\ sharedFrame

\* the group() calls after the search (ls.py:94-95,104-116): they read the
\* match the helper holds now
parse_read(o) ==
    /\ parsing[o].pc = "read"
    /\ parsing' = [parsing EXCEPT ![o] = [@ EXCEPT !.pc = "done", !.got = regex_match]]
    /\ UNCHANGED <<regex_match, last_ok>>
    /\ sharedFrame

NextShared ==
    \/ \E o \in Observers, line \in LsLines : parse_begin(o, line)
    \/ \E o \in Observers : parse_search(o)
    \/ \E o \in Observers : parse_read(o)

SpecShared == Init /\ [][NextShared]_vars

\* C21: the groups a handler reads after its own successful search are the
\* groups of that search
C21_ReadsOwnMatch ==
    \A o \in Observers :
        (parsing[o].pc = "done" /\ parsing[o].found # NoMatch) =>
            parsing[o].got = parsing[o].found

\* ------------------------------------------------------ claims: feed loop
\* C22 (subscribes once, before 'started'): a feed sets 'started' only from
\* the position after its subscribe call, and reaches that position only by
\* the step that takes it from the queue and subscribes its observer
C22_SubscribesOnceBeforeStarted ==
    [][\A f \in Futures :
          /\ (started'[f] /\ ~started[f]) => feedPc[f] = "signal"
          /\ (feedPc'[f] = "signal" /\ feedPc[f] # "signal") =>
                (feedPc[f] = "queued" /\ futObs[f] \in subscribers')]_vars

\* C22 (exits only when done): a feed leaves its loop only with its observer
\* in a terminal state
C22_ExitsOnlyWhenDone ==
    \A f \in Futures : feedPc[f] \in {"exit", "ended"} => ObserverDone(futObs[f])

\* C22: whenever a feed has finished, its observer is in a terminal state
\* and its callback is not in the connection's subscriber list
C22_FinishedFeedUnsubscribed ==
    \A f \in Futures :
        feedPc[f] = "ended" => (ObserverDone(futObs[f]) /\ futObs[f] \notin subscribers)

\* ------------------------------------- one runner serving both observers
\* the caller submits and waits, and never calls shutdown() or cancel()
NextServe ==
    \/ \E o \in Observers : submit_call("r1", o)
    \/ submit_return
    \/ submit_raise
    \/ \E f \in Futures : feed_start(f)
    \/ \E f \in Futures : feed_started_set(f)
    \/ \E f \in Futures : feed_check_done(f)
    \/ \E f \in Futures : feed_check_shutdown(f)
    \/ \E f \in Futures : feed_exit(f)
    \/ \E f \in Futures : wait_for_begin(f, 0)
    \/ wait_for_future_done
    \/ wait_for_tick
    \/ wait_for_shutdown_done
    \/ wait_for_return
    \/ wait_for_unsubscribe
    \/ wait_for_cancel_observer
    \/ wait_for_cancel_future
    \/ wait_for_shutdown_timeout
    \/ wait_for_on_timeout
    \/ wait_for_raise
    \/ \E o \in Observers : data_received(o)

SpecServe == Init /\ [][NextServe]_vars

\* C23: a wait_for on one observer leaves the other observer of the runner
\* alone; as the caller never asks for a shutdown here, no feed loop ever
\* cancels its observer (the timeout path of the wait_for on an observer is
\* the only place left where the runner cancels it)
C23_OtherObserverUntouched ==
    \A o \in Observers : cancelledBy[o] # "feed"

\* -------------------------------------------------- claims: explicit timeout
\* C24: a wait_for called with an explicit timeout keeps that value as its
\* deadline through every tick, whatever the observer's timeout is changed
\* to meanwhile: it waits while the time passed is below the explicit value
\* and takes the timeout path exactly when the time passed has reached it;
\* the flag to read the observer's timeout is set exactly when no explicit
\* timeout was given
C24_ExplicitTimeoutFixed ==
    [][ /\ (pc = "wf_wait" /\ ~wf.check) =>
              /\ wf.first > 0
              /\ wf.timeout = wf.first
              /\ wf'.timeout = wf.first
              /\ (pc' = "wf_wait" => wf'.elapsed < wf.first)
              /\ (pc' = "wf_unsubscribe" => wf'.elapsed >= wf.first)
        /\ (pc = "idle" /\ pc' \in {"wf_wait", "wf_unsubscribe"}) =>
              /\ wf'.check = (wf'.timeout = 0)
              /\ (wf'.check => wf'.first = obsTimeout[cur'.o])
      ]_vars

\* the explicit deadline expired although the observer's timeout had been
\* raised above it while wait_for waited
C24_Witness ==
    /\ pc = "wf_unsubscribe"
    /\ ~wf.check
    /\ wf.timeout = 1
    /\ wf.elapsed = 1
    /\ obsTimeout[cur.o] > wf.timeout

\* wait_for still waits on its explicit deadline although the observer's
\* timeout had been lowered below it
C24_WitnessLowered ==
    /\ pc = "wf_wait"
    /\ ~wf.check
    /\ obsTimeout[cur.o] < wf.timeout

\* ------------------------------------------- claims: the line-consumed signal
\* C25: on_new_line returns for every line, also when a parse method
\* consumed it, and the command goes on taking lines; a full line that
\* follows a consumed full line is again given to the first predicate, in
\* the fixed order, whose pattern it matches
C25_SignalStaysInside ==
    [][fed' # fed =>
          /\ ls_out'.call = "on_new_line"
          /\ ls_out'.kind = "returned"
          /\ (~IsPrompt(LastFed(fed').line) => obsState'[Cmd] = "Pending")
          /\ (/\ fed # <<>>
              /\ LastFed(fed).full
              /\ FirstApplicable(LastFed(fed).line) # 0
              /\ LastFed(fed').full) =>
                 ls_out'.value =
                     (IF FirstApplicable(LastFed(fed').line) = 0 THEN "none"
                      ELSE MethodOf[FirstApplicable(LastFed(fed').line)])]_vars

\* the long-format line was consumed by the third predicate, and the total
\* line after it by the first
C25_Witness ==
    /\ fed = <<[line |-> Line_bin, full |-> TRUE], [line |-> Line_total, full |-> TRUE]>>
    /\ ls_out = LsOut("on_new_line", "returned", "_parse_total")
    /\ obsState[Cmd] = "Pending"
    /\ "total" \in DOMAIN current_ret
    /\ Line_bin[9] \in DOMAIN current_ret.files

\* C26: a full line that a parse predicate consumed is not passed on to the
\* base handler, so it cannot complete the command: after such a line the
\* command is still waiting for its prompt
C26_ConsumedLineSkipsBaseHandler ==
    (/\ fed # <<>>
     /\ LastFed(fed).full
     /\ FirstApplicable(LastFed(fed).line) # 0) => obsState[Cmd] = "Pending"

\* --------------------------------------------------- claims: the accessors
TypeOf == [c \in Accessors |->
              CASE c = "get_dirs" -> "d" [] c = "get_links" -> "l" [] c = "get_files" -> "-"]

\* the names of result.files whose first permission character is t
NamesOfType(t) ==
    {n \in DOMAIN current_ret.files :
        /\ "permissions" \in DOMAIN current_ret.files[n]
        /\ current_ret.files[n]["permissions"][1] = t}

\* C27: once the command is done, an accessor returns exactly the entries of
\* result.files whose first permission character is its own ('d', 'l', '-'),
\* each with the stored record; so the three results are pairwise disjoint
C27_AccessorsClassify ==
    (ls_out.call \in Accessors /\ obsState[Cmd] = "Success") =>
        /\ ls_out.kind = "returned"
        /\ DOMAIN ls_out.value = NamesOfType(TypeOf[ls_out.call])
        /\ \A n \in DOMAIN ls_out.value : ls_out.value[n] = current_ret.files[n]
        /\ \A t, u \in {"d", "l", "-"} : t # u => NamesOfType(t) \cap NamesOfType(u) = {}

\* C30: once the command is done, an accessor returns a mapping and does not
\* fail, whatever the parser has accumulated
C30_AccessorsNeverFailWhenDone ==
    (ls_out.call \in Accessors /\ ObserverDone(Cmd)) => ls_out.kind = "returned"

\* ------------------------------------------------ claims: long-format records
\* a listing in which the name bcn first is a link and later a directory,
\* and is also named by a filename-list line
Line_bcn_dir ==
    <<<<"d", "r", "w", "x", "r", "-", "x", "r", "-", "x">>, <<"2">>, <<"r", "o", "o", "t">>,
      <<"r", "o", "o", "t">>, <<"4", "0", "9", "6">>, <<"S", "e", "p">>, <<"2", "5">>,
      <<"2", "0", "1", "4">>, <<"b", "c", "n">>>>
Line_names == <<<<"b", "c", "n">>, <<"b", "i", "n">>>>

OverwriteLines == {Line_bcn, Line_bcn_dir, Line_bin, Line_names, Line_prompt}

NextOverwrite ==
    \/ \E line \in OverwriteLines, is_full_line \in BOOLEAN : on_new_line(line, is_full_line)
    \/ get_dirs
    \/ get_links
    \/ get_files

SpecOverwrite == Init /\ [][NextOverwrite]_vars

LongFields ==
    {"permissions", "hard_links_count", "owner", "group", "size_raw", "size_bytes",
     "date", "name"}

\* C28: a full long-format line (entry or symlink) leaves under its file
\* name a record with the fields of this line only: the eight fields, and
\* 'link' exactly for a symlink line; the records of all other names and
\* the total are as before
C28_LongLineOverwrites ==
    [][(/\ fed' # fed
        /\ LastFed(fed').full
        /\ FirstApplicable(LastFed(fed').line) \in {2, 3}) =>
          LET line   == LastFed(fed').line
              islink == FirstApplicable(line) = 2
              name   == IF islink THEN line[Len(line) - 2] ELSE line[Len(line)]
              files  == current_ret.files
              after  == current_ret'.files
          IN  /\ DOMAIN after = DOMAIN files \cup {name}
              /\ \A n \in DOMAIN files \ {name} : after[n] = files[n]
              /\ DOMAIN current_ret' = DOMAIN current_ret
              /\ DOMAIN after[name] = LongFields \cup (IF islink THEN {"link"} ELSE {})
              /\ after[name]["name"] = name
              /\ after[name]["permissions"] = line[1]
              /\ after[name]["owner"] = line[3]
              /\ after[name]["group"] = line[4]
              /\ after[name]["size_raw"] = line[5]
              /\ islink => after[name]["link"] = line[Len(line)]]_vars

\* bcn was listed as a link and then as a directory: its record has no link
C28_Witness ==
    /\ Len(fed) = 2
    /\ fed[1] = [line |-> Line_bcn, full |-> TRUE]
    /\ fed[2] = [line |-> Line_bcn_dir, full |-> TRUE]
    /\ DOMAIN current_ret.files[Line_bcn[9]] = LongFields
    /\ current_ret.files[Line_bcn[9]]["permissions"][1] = "d"

\* C29: a full symlink line adds exactly one record, keyed by the link name
\* and holding the target as link; no record keyed by the target or by '->'
\* appears
C29_SymlinkOneRecord ==
    [][(/\ fed' # fed
        /\ LastFed(fed').full
        /\ LastFed(fed').line = Line_bcn) =>
          /\ DOMAIN current_ret'.files = DOMAIN current_ret.files \cup {Line_bcn[9]}
          /\ "link" \in DOMAIN current_ret'.files[Line_bcn[9]]
          /\ current_ret'.files[Line_bcn[9]]["link"] = Line_bcn[11]
          /\ current_ret'.files[Line_bcn[9]]["name"] = Line_bcn[9]
          /\ ls_out'.value = "_parse_long_links"]_vars

\* the symlink line alone was parsed: one record, bcn -> /bcn
C29_Witness ==
    /\ fed = <<[line |-> Line_bcn, full |-> TRUE]>>
    /\ DOMAIN current_ret.files = {Line_bcn[9]}
    /\ current_ret.files[Line_bcn[9]]["link"] = Line_bcn[11]
    /\ Line_bcn[10] = <<"-", ">">>


\* ------------------------------------------------- registry of active loggers
\* the registry and the loggers of logging.getLogger as one value
Registry ==
    [active |-> active_loggers, level |-> logger_level,
     handlers |-> logger_handlers, propagate |-> logger_propagate]

IsActive(reg, name) == \E i \in 1..Len(reg.active) : reg.active[i] = name

\* logger.addHandler of a handler object made for this call
setup_new_file_handler(reg, logger_name, log_level, log_filename) ==
    [reg EXCEPT !.handlers[logger_name] =
        Append(@, [kind |-> "file", file |-> log_filename, level |-> log_level])]

_add_new_file_handler(reg, logger_name, log_file, log_level) ==
    setup_new_file_handler(reg, logger_name, log_level, log_file)

\* RawFileHandler sets its own level to RAW_DATA
_add_raw_file_handler(reg, logger_name, log_file) ==
    [reg EXCEPT !.handlers[logger_name] =
        Append(@, [kind |-> "raw", file |-> log_file, level |-> RAW_DATA])]

_add_raw_trace_file_handler(reg, logger_name, log_file) ==
    [reg EXCEPT !.handlers[logger_name] =
        Append(@, [kind |-> "raw_trace", file |-> log_file, level |-> RAW_DATA])]

\* a create_logger that registers the name whether or not it is registered
create_logger_unguarded(reg, name, log_file, log_level) ==
    LET levelled == [reg EXCEPT !.level[name] = log_level]
        filed == IF log_file # NoFile
                 THEN _add_new_file_handler(levelled, name, log_file, log_level)
                 ELSE levelled
    IN [filed EXCEPT !.active = Append(@, name)]

\* create_logger: level, optional file handler and registration, for a name
\* that is not registered yet
create_logger(reg, name, log_file, log_level) ==
    IF ~IsActive(reg, name)
    THEN LET levelled == [reg EXCEPT !.level[name] = log_level]
             filed == IF log_file # NoFile
                      THEN _add_new_file_handler(levelled, name, log_file, log_level)
                      ELSE levelled
         IN [filed EXCEPT !.active = Append(@, name)]
    ELSE reg

want_debug_details(dl) == dl # NoDebugLevel
debug_level_or_info_level(dl) == IF want_debug_details(dl) THEN dl ELSE INFO

configure_moler_main_logger(reg, dl) ==
    IF ~IsActive(reg, MolerName)
    THEN LET created == create_logger(reg, MolerName, NoFile, TRACE)
             prop == [created EXCEPT !.propagate[MolerName] = TRUE]
             main == _add_new_file_handler(prop, MolerName, <<"moler", "log">>, INFO)
         IN IF want_debug_details(dl)
            THEN _add_new_file_handler(main, MolerName, <<"moler", "debug", "log">>, dl)
            ELSE main
    ELSE reg

configure_runner_logger(reg, dl, runner_name) ==
    LET logger_name == RunnerLoggerName(runner_name) IN
    IF ~IsActive(reg, logger_name)
    THEN create_logger(reg, logger_name, logger_name \o <<"log">>,
                       debug_level_or_info_level(dl))
    ELSE reg

Min(a, b) == IF a <= b THEN a ELSE b

configure_device_logger(reg, dl, raw, connection_name, propagate) ==
    LET logger_name == DeviceLoggerName(connection_name) IN
    IF ~IsActive(reg, logger_name)
    THEN LET created == create_logger(reg, logger_name, NoFile, TRACE)
             prop == [created EXCEPT !.propagate[logger_name] = propagate]
             conn == _add_new_file_handler(prop, logger_name,
                                           logger_name \o <<"log">>, INFO)
             lowered == [conn EXCEPT !.level[logger_name] = Min(RAW_DATA, TRACE)]
             rawfile == _add_raw_file_handler(lowered, logger_name,
                                              logger_name \o <<"raw", "log">>)
         IN IF raw
            THEN IF dl = TRACE
                 THEN _add_raw_trace_file_handler(rawfile, logger_name,
                          logger_name \o <<"raw", "trace", "log">>)
                 ELSE rawfile
            ELSE conn
    ELSE reg

\* configure_debug_level(level): TRACE and DEBUG are the allowed names, any
\* other name or none gives INFO
LevelNames == {"TRACE", "DEBUG", "not_found"}
LevelOfName(level_name) ==
    IF level_name = "TRACE" THEN TRACE
    ELSE IF level_name = "DEBUG" THEN DEBUG
    ELSE INFO

loggersFrame ==
    UNCHANGED <<obsVars, subscribers, inShutdown, iOwn, exShutdown, futVars, callVars,
                current_ret, regex_match, last_ok, ls_out, fed, parsing, traceVars>>

\* a caller's call has returned: the registry it leaves, and the name it was for
Registered(reg, call, name) ==
    /\ active_loggers' = reg.active
    /\ logger_level' = reg.level
    /\ logger_handlers' = reg.handlers
    /\ logger_propagate' = reg.propagate
    /\ log_out' = [call |-> call, name |-> name]
    /\ UNCHANGED <<debug_level, raw_logs_active>>
    /\ loggersFrame

CallCreateLogger ==
    \E name \in LoggerNames, log_file \in LogFiles, log_level \in {TRACE, INFO} :
        Registered(create_logger(Registry, name, log_file, log_level),
                   "create_logger", name)

CallConfigureMain ==
    Registered(configure_moler_main_logger(Registry, debug_level),
               "configure_moler_main_logger", MolerName)

CallConfigureRunner ==
    \E runner_name \in RunnerNames :
        Registered(configure_runner_logger(Registry, debug_level, runner_name),
                   "configure_runner_logger", RunnerLoggerName(runner_name))

CallConfigureDevice ==
    \E connection_name \in ConnectionNames, propagate \in BOOLEAN :
        Registered(configure_device_logger(Registry, debug_level, raw_logs_active,
                                           connection_name, propagate),
                   "configure_device_logger", DeviceLoggerName(connection_name))

configure_debug_level ==
    \E level_name \in LevelNames :
        /\ debug_level' = LevelOfName(level_name)
        /\ log_out' = [call |-> "configure_debug_level", name |-> <<>>]
        /\ UNCHANGED <<registryVars, raw_logs_active>>
        /\ loggersFrame

NextLoggers ==
    \/ CallCreateLogger
    \/ CallConfigureMain
    \/ CallConfigureRunner
    \/ CallConfigureDevice
    \/ configure_debug_level

\* the process may have been started with any MOLER_DEBUG_LEVEL and with raw
\* logs switched on or off
InitLoggersAny ==
    /\ InitRest
    /\ obsTimeout = [o \in Observers |-> MaxTimeout]
    /\ InitRegistry
    /\ \E level_name \in LevelNames : debug_level = LevelOfName(level_name)
    /\ raw_logs_active \in BOOLEAN
    /\ InitTrace

SpecLoggers == InitLoggersAny /\ [][NextLoggers]_vars


\* C31: after any sequence of create_logger and configure_*_logger calls each
\* name is in active_loggers at most once; the level or the handlers of a name
\* change only in a call for that name that finds it unregistered and
\* registers it, and a call for a registered name leaves levels and handlers
\* as they were.
C31_RegisteredOnce ==
    [][ /\ \A i, j \in 1..Len(active_loggers') :
              active_loggers'[i] = active_loggers'[j] => i = j
        /\ \A n \in LoggerNames :
              (logger_level'[n] # logger_level[n]
                  \/ logger_handlers'[n] # logger_handlers[n]) =>
                  /\ log_out'.name = n
                  /\ ~IsActive(Registry, n)
                  /\ \E i \in 1..Len(active_loggers') : active_loggers'[i] = n
        /\ (log_out'.name \in LoggerNames /\ IsActive(Registry, log_out'.name)) =>
              UNCHANGED <<active_loggers, logger_level, logger_handlers>>
      ]_vars

\* the main logger was configured with its files, and a later create_logger
\* for the same name has returned
C31_Witness ==
    /\ log_out.call = "create_logger"
    /\ log_out.name = MolerName
    /\ Len(logger_handlers[MolerName]) >= 2
    /\ Len(active_loggers) = Cardinality(LoggerNames)


\* ------------------------------------------------------ RawTraceFormatter
\* UTF-8 bytes of one code point below 2048
Utf8(cp) == IF cp < 128 THEN <<cp>> ELSE <<192 + (cp \div 64), 128 + (cp % 64)>>

\* record.encoder(record.msg) for the encoder the connections attach:
\* msg.encode("utf-8")
RECURSIVE Encode(_)
Encode(msg) == IF msg = <<>> THEN <<>> ELSE Utf8(Head(msg)) \o Encode(Tail(msg))

\* RawDataFormatter.format: bytes are taken as they are, anything else goes
\* through the record's encoder, and a record without one fails the assert
RawDataFormatter_format(record) ==
    IF record.is_bytes THEN [kind |-> "returned", raw_bytes |-> record.msg]
    ELSE IF record.encoder = "none" THEN [kind |-> "raised", raw_bytes |-> <<>>]
    ELSE [kind |-> "returned", raw_bytes |-> Encode(record.msg)]

\* a format that reads the offset after it has added the record's size
RawTraceFormatter_format_offset_after(total, record) ==
    LET base == RawDataFormatter_format(record)
        bytesize == Len(base.raw_bytes)
    IN IF base.kind = "raised"
       THEN [total |-> total, out |-> [kind |-> "raised", bytesize |-> 0, offset |-> 0]]
       ELSE [total |-> total + bytesize,
             out |-> [kind |-> "returned", bytesize |-> bytesize,
                      offset |-> total + bytesize]]

\* RawTraceFormatter.format on a formatter whose total_bytesize is total: the
\* new total and the bytesize and offset fields of the record it returns
RawTraceFormatter_format(total, record) ==
    LET base == RawDataFormatter_format(record)
        bytesize == Len(base.raw_bytes)
        offset == total
    IN IF base.kind = "raised"
       THEN [total |-> total, out |-> [kind |-> "raised", bytesize |-> 0, offset |-> 0]]
       ELSE [total |-> total + bytesize,
             out |-> [kind |-> "returned", bytesize |-> bytesize, offset |-> offset]]

traceFrame ==
    UNCHANGED <<obsVars, subscribers, inShutdown, iOwn, exShutdown, futVars, callVars,
                current_ret, regex_match, last_ok, ls_out, fed, parsing,
                registryVars, debug_level, raw_logs_active, log_out>>

\* the handler formats one record; it holds its lock while it does, so
\* records are formatted one at a time
FormatRecord ==
    /\ Len(formatted) < MaxRecords
    /\ \E record \in LogRecords :
        LET res == RawTraceFormatter_format(total_bytesize, record) IN
        /\ total_bytesize' = res.total
        /\ trace_out' = res.out
        /\ formatted' = IF res.out.kind = "returned"
                        THEN Append(formatted, Len(RawDataFormatter_format(record).raw_bytes))
                        ELSE formatted
    /\ traceFrame

NextTrace == FormatRecord

SpecTrace == Init /\ [][NextTrace]_vars

RECURSIVE SumSeq(_)
SumSeq(s) == IF s = <<>> THEN 0 ELSE Head(s) + SumSeq(Tail(s))

\* C32: the offset of each formatted record is the sum of the byte sizes of
\* the records formatted before it, the running total after the record is that
\* offset plus the record's byte size, and the total never decreases.
C32_OffsetIsRunningSum ==
    [][ /\ total_bytesize' >= total_bytesize
        /\ trace_out'.kind = "returned" =>
              /\ trace_out'.offset = SumSeq(formatted)
              /\ trace_out'.bytesize = formatted'[Len(formatted')]
              /\ total_bytesize' = trace_out'.offset + trace_out'.bytesize
      ]_vars

\* a third record, after records of different sizes, one of them encoded into
\* more bytes than it has characters
C32_Witness ==
    /\ Len(formatted) = 3
    /\ formatted[1] = 3
    /\ formatted[2] = 1
    /\ trace_out.kind = "returned"
    /\ trace_out.offset = 4
    /\ trace_out.bytesize = 2
    /\ total_bytesize = 6

====
